---- MODULE Spec2Model ----
(***************************************************************************)
(* dbmasta: the sync client DataBase (src/dbmasta/db_client/base.py) and   *)
(* the async client AsyncDataBase (src/dbmasta/async_db_client/base.py).   *)
(*                                                                         *)
(* Spec       one client serving sequential calls: run, execute, the CRUD  *)
(*            operations, get_header_info and correct_types, with the      *)
(*            database engine as a nondeterministic environment.           *)
(* SpecCond   the predicates built by equal_to and in_, evaluated on a     *)
(*            row under SQL's three-valued logic.                          *)
(* SpecPages  the select_pages generator over an unchanging result.        *)
(* SpecSchema get_header_info and correct_types against the catalog.       *)
(* SpecText   the coercion of a string for a column of one of the text    *)
(*            classes.                                                     *)
(* SpecStore  insert, upsert, select, update and delete on the rows of one *)
(*            table.                                                       *)
(* SpecSem    concurrent execute calls around the semaphore, interleaved   *)
(*            with assignments to max_db_concurrency.                      *)
(* SpecTree   the WHERE clause _construct_conditions builds from a         *)
(*            condition, and the rows it reaches.                          *)
(* SpecTasks  concurrent get_header_info calls on one AsyncDataBase.       *)
(* SpecHandles concurrent get_table calls on one AsyncDataBase.             *)
(* SpecBatch  the insert_pages and upsert_pages generators.                 *)
(* SpecGenerators  the three generators with a consumer that keeps pulling. *)
(* SpecSemFair     SpecSem under fair scheduling of the event loop.         *)
(* SpecPair   the same calls made on a DataBase and on an AsyncDataBase.    *)
(***************************************************************************)
EXTENDS Integers, Sequences, FiniteSets, TLC

\* ------------------------------------------------------------------ bounds
MaxRecords == 1     \* longest record list handed to insert/upsert/correct_types
MaxObjects == 3     \* most column maps (dict objects) a behaviour allocates
MaxRows    == 6     \* most records in the paginated result
MaxPageSize == 4    \* largest page_size
MaxPages   == 8     \* most pages a consumer pulls from one generator
MaxValues  == 2     \* longest value list handed to in_
MaxTasks   == 3     \* most concurrent calls on one client
MaxSemaphores == 2  \* most asyncio.Semaphore objects one client creates
MaxConditions == 2  \* longest list under an _AND_ / _OR_ key

VARIABLES
    client,              \* "async" (AsyncDataBase) or "sync" (DataBase)
    event_handlers,      \* [on_new_table, on_query_error]: is a handler registered
    ignore_event_errors, \* self.ignore_event_errors
    _header_info_cache,  \* self._header_info_cache: key -> column map or NoMap
    table_cache,         \* self.table_cache: key -> is a table handle cached
    nextId,              \* identity of the next dict object allocated
    call,                \* the call in progress, or the call that just ended
    last,                \* what get_header_info, as it began, saw the previous call to be
    cond,                \* SpecCond: a predicate builder call and a row
    pager,               \* SpecPages: one select_pages generator
    text,                \* SpecText: one coercion of a string for a text column
    store,               \* SpecStore: the rows of a table and the last call on it
    sem,                 \* SpecSem: the tasks of one client around its semaphore
    tree,                \* SpecTree: one condition handed to _construct_conditions
    tasks,               \* SpecTasks: concurrent get_header_info calls on one client
    handles,             \* SpecHandles: concurrent get_table calls on one client
    batch,               \* SpecBatch: one insert_pages / upsert_pages generator
    pair                 \* SpecPair: one call made on a sync and on an async client

vars == <<client, event_handlers, ignore_event_errors, _header_info_cache,
          table_cache, nextId, call, last, cond, pager, text, store, sem, tree, tasks,
          handles, batch, pair>>

clientVars == <<client, event_handlers, ignore_event_errors, _header_info_cache,
                table_cache, nextId, call, last>>

sideVars == <<text, store, sem, tree, tasks, handles, batch, pair>>

\* ------------------------------------------------------- the database side
DefaultDatabase == "main"                    \* auth.default_database
ExistingTable == "_dbmasta_audit_test"
MissingTable  == "nonexistent_table_xyz_123"
Tables == {ExistingTable, MissingTable}
Keys == {<<DefaultDatabase, t>> : t \in Tables}

\* INFORMATION_SCHEMA.COLUMNS rows of a table: none for a table that does not exist.
CatalogRows(table) ==
    IF table = ExistingTable
    THEN { [COLUMN_NAME |-> "id",    IS_NULLABLE |-> "NO",  DATA_TYPE |-> "int",
            COLUMN_TYPE |-> "int(11)"],
           [COLUMN_NAME |-> "name",  IS_NULLABLE |-> "NO",  DATA_TYPE |-> "varchar",
            COLUMN_TYPE |-> "varchar(255)"],
           [COLUMN_NAME |-> "value", IS_NULLABLE |-> "YES", DATA_TYPE |-> "int",
            COLUMN_TYPE |-> "int(11)"] }
    ELSE {}

\* The columns of the reflected table (table.c), with the class name of col.type.
ReflectedColumns(table) ==
    IF table = ExistingTable
    THEN { [key |-> "id",    type_name |-> "INTEGER", nullable |-> FALSE],
           [key |-> "name",  type_name |-> "VARCHAR", nullable |-> FALSE],
           [key |-> "value", type_name |-> "INTEGER", nullable |-> TRUE] }
    ELSE {}

\* ------------------------------------------------------------- exceptions
NoExc == [type |-> "None", msg |-> "", about |-> <<>>]

Exc(type, msg) == [type |-> type, msg |-> msg, about |-> <<>>]

SchemaQueryError(database, table_name) ==
    [type |-> "SchemaQueryError",
     msg |-> "INFORMATION_SCHEMA query failed or returned no columns",
     about |-> <<database, table_name>>]

MissingColumnError(key) ==
    [type |-> "MissingColumnError",
     msg |-> "Table schema empty or missing column",
     about |-> <<key>>]

KeyError(key) == [type |-> "KeyError", msg |-> "", about |-> <<key>>]

NoSuchTableError(table_name) ==
    [type |-> "NoSuchTableError", msg |-> "", about |-> <<table_name>>]

HandlerError == Exc("HandlerError", "raised by an event handler")

FatalSignatures == { "Packet sequence number wrong", "Commands out of sync",
                     "Lost connection to MySQL server", "Can't connect to MySQL server" }

GenericMessage == "Table doesn't exist"

_is_fatal_mysql_protocol_error(e) == e.msg \in FatalSignatures

\* --------------------------------------------------------------- responses
NoError == "None"

\* DataBaseResponse(query) / DataBaseResponse.default(database): a fresh response.
DataBaseResponse == [successful |-> TRUE, error_info |-> NoError, rows |-> {}]

NoDbr == [successful |-> TRUE, error_info |-> "no response", rows |-> {}]

\* dbr._receive(result), the result materialized.
Receive(dbr, rows) == [dbr EXCEPT !.rows = rows, !.successful = TRUE]

\* dbr._receive(result) when fetching raises: marks the response and re-raises.
ReceiveFailed(dbr, e) == [dbr EXCEPT !.successful = FALSE, !.error_info = e.msg]

MarkFailed(dbr, e) == [dbr EXCEPT !.successful = FALSE, !.error_info = e.type]

\* ------------------------------------------------------------ column maps
\* type_map[...]: the coercion descriptor registered under a type key.
type_map(type_key) == type_key

\* str.upper() on the strings the catalog returns.
Upper(s) ==
    CASE s = "int" -> "INT"
      [] s = "varchar" -> "VARCHAR"
      [] s = "int(11)" -> "INT(11)"
      [] s = "varchar(255)" -> "VARCHAR(255)"
      [] s = "tinytext" -> "TINYTEXT"
      [] s = "text" -> "TEXT"
      [] s = "mediumtext" -> "MEDIUMTEXT"
      [] s = "longtext" -> "LONGTEXT"
      [] OTHER -> s

\* _SA_TYPE_NAME_TO_MAP_KEY with every text class sent to the smallest one.
_SA_TYPE_NAME_TO_MAP_KEY_collapsed(type_name) ==
    CASE type_name \in {"Integer", "INTEGER"} -> "INT"
      [] type_name \in {"String", "VARCHAR", "NVARCHAR"} -> "VARCHAR"
      [] type_name \in {"Text", "TEXT", "LONGTEXT", "MEDIUMTEXT", "TINYTEXT", "JSON"}
           -> "TINYTEXT"
      [] OTHER -> "STR"

\* _SA_TYPE_NAME_TO_MAP_KEY.get(type_name, "STR")
_SA_TYPE_NAME_TO_MAP_KEY(type_name) ==
    CASE type_name \in {"Integer", "INTEGER"} -> "INT"
      [] type_name \in {"SmallInteger", "SMALLINT"} -> "SMALLINT"
      [] type_name \in {"BigInteger", "BIGINT"} -> "BIGINT"
      [] type_name = "TINYINT" -> "TINYINT"
      [] type_name = "MEDIUMINT" -> "MEDIUMINT"
      [] type_name \in {"String", "VARCHAR", "NVARCHAR"} -> "VARCHAR"
      [] type_name = "CHAR" -> "CHAR"
      [] type_name \in {"Text", "TEXT"} -> "TEXT"
      [] type_name = "LONGTEXT" -> "LONGTEXT"
      [] type_name = "MEDIUMTEXT" -> "MEDIUMTEXT"
      [] type_name = "TINYTEXT" -> "TINYTEXT"
      [] type_name \in {"Boolean", "BOOLEAN"} -> "BOOL"
      [] type_name \in {"DateTime", "DATETIME"} -> "DATETIME"
      [] type_name \in {"Date", "DATE"} -> "DATE"
      [] type_name \in {"Time", "TIME"} -> "TIME"
      [] type_name \in {"Timestamp", "TIMESTAMP"} -> "TIMESTAMP"
      [] type_name \in {"Numeric", "DECIMAL"} -> "DECIMAL"
      [] type_name \in {"Float", "FLOAT"} -> "FLOAT"
      [] type_name = "DOUBLE" -> "DOUBLE"
      [] type_name \in {"LargeBinary", "BLOB"} -> "BLOB"
      [] type_name = "TINYBLOB" -> "TINYBLOB"
      [] type_name = "MEDIUMBLOB" -> "MEDIUMBLOB"
      [] type_name = "LONGBLOB" -> "LONGBLOB"
      [] type_name = "ENUM" -> "ENUM"
      [] type_name = "JSON" -> "LONGTEXT"
      [] OTHER -> "STR"

\* One catalog row turned into a column entry, field by field.
convert_header_info(x) ==
    [COLUMN_NAME |-> x.COLUMN_NAME,
     IS_NULLABLE |-> (x.IS_NULLABLE = "YES"),
     DATA_TYPE   |-> type_map(Upper(x.DATA_TYPE)),
     COLUMN_TYPE |-> Upper(x.COLUMN_TYPE)]

\* The column entries derived from a reflected table, no catalog query involved.
_coldata_from_table(table) ==
    { [COLUMN_NAME |-> col.key,
       IS_NULLABLE |-> col.nullable,
       DATA_TYPE   |-> type_map(_SA_TYPE_NAME_TO_MAP_KEY(col.type_name)),
       COLUMN_TYPE |-> _SA_TYPE_NAME_TO_MAP_KEY(col.type_name)]
      : col \in ReflectedColumns(table) }

\* A dict object holding column entries: id is the object's identity.
NoMap == [id |-> 0, cols |-> {}]

InColdata(key, coldata) == \E col \in coldata : col.COLUMN_NAME = key

ColOf(key, coldata) == CHOOSE col \in coldata : col.COLUMN_NAME = key

\* ---------------------------------------------------------------- records
\* A record is a Python dict: a sequence of [k, v] items in insertion order,
\* with distinct keys. A value is [v, typed]: typed = "raw" until it is coerced.
\* The records handed in: keys "name" (a column) and "tags" (no column of the table).
RawValue(k) == [v |-> k, typed |-> "raw"]

Items == { <<[k |-> "name", v |-> RawValue("name")]>>,
           <<[k |-> "name", v |-> RawValue("name")], [k |-> "tags", v |-> RawValue("tags")]>>,
           <<[k |-> "tags", v |-> RawValue("tags")], [k |-> "name", v |-> RawValue("name")]>> }

RecordLists == UNION { [1..n -> Items] : n \in 0..MaxRecords }

\* convert_vals without the membership test: coldata[key] raises KeyError.
convert_vals_unchecked(key, value, coldata) ==
    IF ~InColdata(key, coldata)
    THEN [exc |-> KeyError(key), value |-> value]
    ELSE [exc |-> NoExc,
          value |-> [value EXCEPT !.typed = ColOf(key, coldata).DATA_TYPE]]

convert_vals(key, value, coldata) ==
    IF ~InColdata(key, coldata)
    THEN [exc |-> MissingColumnError(key), value |-> value]
    ELSE [exc |-> NoExc,
          value |-> [value EXCEPT !.typed = ColOf(key, coldata).DATA_TYPE]]

\* correct_types' inner loop carrying on past a key that is no column: every
\* other value of the record is replaced, and the first such key is reported.
ConvertItemsSkipping(r, i, coldata) ==
    LET absent == { n \in i..Len(r) : ~InColdata(r[n].k, coldata) }
    IN  [r |-> [n \in 1..Len(r) |->
                  IF n >= i /\ n \notin absent
                  THEN [r[n] EXCEPT !.v = convert_vals(r[n].k, r[n].v, coldata).value]
                  ELSE r[n]],
         exc |-> IF absent = {} THEN NoExc
                 ELSE MissingColumnError(r[CHOOSE n \in absent :
                                                \A m \in absent : n <= m].k)]

\* The inner loop of correct_types: for k in r: r[k] = convert_vals(...), from item i.
RECURSIVE ConvertItems(_, _, _)
ConvertItems(r, i, coldata) ==
    IF i > Len(r) THEN [r |-> r, exc |-> NoExc]
    ELSE LET c == convert_vals(r[i].k, r[i].v, coldata)
         IN  IF c.exc # NoExc THEN [r |-> r, exc |-> c.exc]
             ELSE ConvertItems([r EXCEPT ![i].v = c.value], i + 1, coldata)

\* The outer loop of correct_types: for r in records, from record j; in place.
RECURSIVE ConvertRecords(_, _, _)
ConvertRecords(records, j, coldata) ==
    IF j > Len(records) THEN [records |-> records, exc |-> NoExc]
    ELSE LET c == ConvertItems(records[j], 1, coldata)
         IN  IF c.exc # NoExc
             THEN [records |-> [records EXCEPT ![j] = c.r], exc |-> c.exc]
             ELSE ConvertRecords([records EXCEPT ![j] = c.r], j + 1, coldata)

\* ------------------------------------------------- conditions on a column
\* Column values and comparison values: strings, or NULL / None.
NULL == "NULL"
Strings == {"", "a", "b"}
SqlValues == Strings \cup {NULL}

\* SQL's three truth values; a WHERE clause keeps a row when its value is "T".
SqlNot(x) == CASE x = "T" -> "F" [] x = "F" -> "T" [] OTHER -> "U"

SqlOr(x, y) ==
    IF x = "T" \/ y = "T" THEN "T" ELSE IF x = "F" /\ y = "F" THEN "F" ELSE "U"

\* func.ifnull(col, d)
IfNull(a, d) == IF a = NULL THEN d ELSE a

\* a == value: IS NULL when the value is None, = otherwise.
SqlEq(a, value) ==
    IF value = NULL THEN (IF a = NULL THEN "T" ELSE "F")
    ELSE IF a = NULL THEN "U" ELSE IF a = value THEN "T" ELSE "F"

\* a != value: IS NOT NULL when the value is None, != otherwise.
SqlNe(a, value) ==
    IF value = NULL THEN (IF a = NULL THEN "F" ELSE "T")
    ELSE IF a = NULL THEN "U" ELSE IF a # value THEN "T" ELSE "F"

\* a IN (values): FALSE over the empty list whatever a is.
SqlIn(a, values) ==
    IF values = {} THEN "F"
    ELSE IF a = NULL THEN "U"
    ELSE IF a \in values THEN "T" ELSE "F"

\* col.is_(None)
SqlIsNull(a) == IF a = NULL THEN "T" ELSE "F"

\* A null-inclusive form that include_null=True asks for as well.
NullInclusiveUnlessRefused(_not, include_null) == _not /\ include_null # "False"

\* include_null = _not and include_null is None
NullInclusive(_not, include_null) == _not /\ include_null = "None"

\* equal_to(value, _not, include_null)(col)
equal_to(value, _not, include_null, col) ==
    IF NullInclusive(_not, include_null)
    THEN IF ~_not THEN SqlEq(IfNull(col, ""), value) ELSE SqlNe(IfNull(col, ""), value)
    ELSE IF ~_not THEN SqlEq(col, value) ELSE SqlNe(col, value)

\* in_(values, _not, include_null)(col)
in_(values, _not, include_null, col) ==
    IF NullInclusive(_not, include_null)
    THEN IF _not THEN SqlOr(SqlNot(SqlIn(col, values)), SqlIsNull(col))
         ELSE SqlOr(SqlIn(col, values), SqlIsNull(col))
    ELSE IF ~_not THEN SqlIn(col, values) ELSE SqlNot(SqlIn(col, values))

\* ------------------------------------------------------- text coercion
TINYTEXT_MAX   == 255
TEXT_MAX       == 65535
MEDIUMTEXT_MAX == 16777215

\* A string of n characters, as _make_str builds it: the characters differ
\* along the string, so one prefix is not another part of it.
MakeStr(n) == [i \in 1..n |-> i % 7]

\* The lengths of the strings handed to insert.
TextLengths == {0, 1, 5, 100, 254, 255, 256, 300, 510, 700, 1000}

\* The columns of the text-limits table: the class of col.type as reflected,
\* and DATA_TYPE as the catalog reports it. A JSON column is reached only
\* through reflection.
TextColumns ==
    { [type_name |-> "TINYTEXT",   DATA_TYPE |-> "tinytext"],
      [type_name |-> "TEXT",       DATA_TYPE |-> "text"],
      [type_name |-> "MEDIUMTEXT", DATA_TYPE |-> "mediumtext"],
      [type_name |-> "LONGTEXT",   DATA_TYPE |-> "longtext"],
      [type_name |-> "JSON",       DATA_TYPE |-> "json"] }

\* The length cap of a text descriptor; 0 stands for LONGTEXT's cap of 2^32 - 1
\* characters, which no string here comes near.
DescriptorCap(descriptor) ==
    CASE descriptor = "TINYTEXT"   -> TINYTEXT_MAX
      [] descriptor = "TEXT"       -> TEXT_MAX
      [] descriptor = "MEDIUMTEXT" -> MEDIUMTEXT_MAX
      [] OTHER -> 0

\* col['DATA_TYPE'](value, **kwargs).value for a text descriptor: the string cut
\* to the descriptor's cap.
CoercedValue(descriptor, s) ==
    IF DescriptorCap(descriptor) # 0 /\ Len(s) > DescriptorCap(descriptor)
    THEN SubSeq(s, 1, DescriptorCap(descriptor))
    ELSE s

\* ------------------------------------------------------ the stored table
\* The table of the tests with a BOOL column added: name VARCHAR(255) NOT NULL
\* UNIQUE, value INT DEFAULT 0, flag BOOL, created_at DATETIME DEFAULT
\* CURRENT_TIMESTAMP. The engine assigns id; it takes no part in what follows.
VarcharLength == 255

Absent == "absent"

RowColumns == {"name", "value", "flag", "created_at"}

\* [c.key for c in table.c]
TableColumnKeys == {"id"} \cup RowColumns

\* type(col.type).__name__ of the reflected columns.
ColumnTypeName(k) ==
    CASE k = "name" -> "VARCHAR"
      [] k = "value" -> "INTEGER"
      [] k = "flag" -> "BOOLEAN"
      [] k = "created_at" -> "DATETIME"
      [] OTHER -> "INTEGER"

\* What the engine stores in a column the INSERT does not name.
ColumnDefault(k) ==
    CASE k = "value" -> "0"
      [] k = "created_at" -> "CURRENT_TIMESTAMP"
      [] OTHER -> NULL

\* The records handed to insert and upsert: a short name or one longer than the
\* column, with every other column or with value alone.
NameLengths == {1, 300}

StoreRecords ==
    { [name |-> MakeStr(n), value |-> "10", flag |-> "True",
       created_at |-> "2026-11-02 10:00:00"] : n \in NameLengths }
    \cup { [name |-> MakeStr(n), value |-> "20", flag |-> Absent,
            created_at |-> Absent] : n \in NameLengths }

\* The keys of the record: name, and what it holds besides.
Supplied(record) ==
    {"name"} \cup { k \in RowColumns \ {"name"} : record[k] # Absent }

\* col['DATA_TYPE'](value, CHARACTER_MAXIMUM_LENGTH=length, ...).value: a VARCHAR
\* value is cut to the column's length, the other values pass as they are.
CoerceColumn(k, v) ==
    IF type_map(_SA_TYPE_NAME_TO_MAP_KEY(ColumnTypeName(k))) = type_map("VARCHAR")
       /\ Len(v) > VarcharLength
    THEN SubSeq(v, 1, VarcharLength)
    ELSE v

\* correct_types(database, table_name, records, table=table) on one record.
CoerceRecord(record) ==
    [k \in RowColumns |->
        IF k \in Supplied(record) THEN CoerceColumn(k, record[k]) ELSE Absent]

\* The row an INSERT of the record makes: VALUES(col) for every column.
InsertedRow(record) ==
    [k \in RowColumns |-> IF k \in Supplied(record) THEN record[k] ELSE ColumnDefault(k)]

\* An update clause over the key column alone, whatever update_keys is.
UpdateKeysNameOnly(update_keys) == {"name"}

\* update_keys = [c.key for c in table.c] when None is given.
UpdateKeys(update_keys) == IF update_keys = {} THEN TableColumnKeys ELSE update_keys

\* A condition mapping with at most one entry: k is the column ("none" for the
\* empty mapping), name the value compared with name, v with any other column.
NoWhere == [k |-> "none", name |-> <<>>, v |-> NULL]

\* The rows a statement's WHERE keeps: table.c[key] == value.
Matching(rows, where) ==
    { r \in rows :
        CASE where.k = "none" -> TRUE
          [] where.k = "name" -> r.name = where.name
          [] OTHER -> SqlEq(r[where.k], where.v) = "T" }

IntegrityError == Exc("IntegrityError", "Duplicate entry")

\* The engine executes a statement on the rows and commits.
ApplyStatement(rows, stmt) ==
    CASE stmt.kind = "insert" ->
           LET new == InsertedRow(stmt.record)
               old == { r \in rows : r.name = new.name }
           IN  IF old = {} THEN [rows |-> rows \cup {new}, result |-> {}, exc |-> NoExc]
               ELSE IF stmt.on_duplicate_key_update = {}
               THEN [rows |-> rows, result |-> {}, exc |-> IntegrityError]
               ELSE [rows |-> (rows \ old) \cup
                                { [k \in RowColumns |->
                                      IF k \in stmt.on_duplicate_key_update
                                      THEN new[k] ELSE r[k]] : r \in old },
                     result |-> {}, exc |-> NoExc]
      [] stmt.kind = "select" ->
           [rows |-> rows, result |-> Matching(rows, stmt.where), exc |-> NoExc]
      [] stmt.kind = "update" ->
           [rows |-> (rows \ Matching(rows, stmt.where)) \cup
                     { [r EXCEPT !.value = stmt.record.value] :
                          r \in Matching(rows, stmt.where) },
            result |-> {}, exc |-> NoExc]
      [] OTHER ->
           [rows |-> rows \ Matching(rows, stmt.where), result |-> {}, exc |-> NoExc]

\* --------------------------------------------------------------- the call
NoRet == [kind |-> "none", dbr |-> NoDbr, map |-> NoMap]
DbrRet(dbr) == [kind |-> "dbr", dbr |-> dbr, map |-> NoMap]
MapRet(map) == [kind |-> "map", dbr |-> NoDbr, map |-> map]
TextRet     == [kind |-> "text", dbr |-> NoDbr, map |-> NoMap]
RecordsRet  == [kind |-> "records", dbr |-> NoDbr, map |-> NoMap]

RunOps  == {"run", "get_header_info", "correct_types"}
CrudOps == {"select", "insert", "update", "delete", "upsert", "clear_table"}
WriteOps == {"insert", "upsert"}

NewCall(op, database, table_name) ==
    [pc |-> "idle", op |-> op, database |-> database, table_name |-> table_name,
     textual |-> FALSE, records |-> <<>>, table_arg |-> FALSE,
     stmt |-> "none", auto_commit |-> FALSE,
     dbr |-> NoDbr,              \* the response variable of run / of the CRUD method
     exec_dbr |-> NoDbr,         \* the response execute built
     exc |-> NoExc,              \* the exception propagating, if any
     ret |-> NoRet,              \* the value about to be returned
     exec |-> "none",            \* "none", "ok", or the stage at which execute failed
     exec_exc |-> NoExc,         \* what the execution raised
     catalog_queried |-> FALSE,  \* an INFORMATION_SCHEMA query was handed to execute
     executed |-> FALSE, committed |-> FALSE, invalidated |-> FALSE,
     got_table |-> FALSE, new_table_events |-> 0,
     handler_calls |-> 0,        \* invocations of on_query_error in this call
     handed |-> NoDbr, handed_exc |-> NoExc, handler_done |-> FALSE,
     handler_raised |-> FALSE,   \* an event handler raised during this call
     cache_at_start |-> _header_info_cache]

\* How the call ended, once its caller has the return value or the exception.
Outcome(c) ==
    IF c.pc # "done" THEN "none" ELSE IF c.exc = NoExc THEN "returned" ELSE "raised"

NoLast == [op |-> "none", key |-> <<"", "">>, returned |-> FALSE, map_id |-> 0]

\* get_header_info lines 254-256: a falsy database means the default one.
ResolveKey(database, table_name) ==
    <<IF database = "" THEN DefaultDatabase ELSE database, table_name>>

LastOf(c) ==
    IF c.op = "get_header_info"
    THEN [op |-> c.op, key |-> ResolveKey(c.database, c.table_name),
          returned |-> (Outcome(c) = "returned"), map_id |-> c.ret.map.id]
    ELSE [op |-> "other", key |-> <<"", "">>, returned |-> FALSE, map_id |-> 0]

Ready == call.pc \in {"idle", "done"}

\* ------------------------------------------------------------- get_table
\* get_table with raise_event swallowing whatever the handler raises.
get_table_swallowing(database, table_name, hraises) ==
    LET key  == <<database, table_name>>
        miss == ~table_cache[key]
        stored == [table_cache EXCEPT ![key] = TRUE]
    IN  IF miss /\ ReflectedColumns(table_name) = {}
        THEN [exc |-> NoSuchTableError(table_name), cache |-> table_cache, events |-> 0]
        ELSE IF miss /\ client = "async" /\ event_handlers.on_new_table
        THEN [exc |-> NoExc, cache |-> stored, events |-> 1]
        ELSE [exc |-> NoExc, cache |-> stored, events |-> 0]

\* hraises: the on_new_table handler, if it is invoked, raises.
get_table(database, table_name, hraises) ==
    LET key  == <<database, table_name>>
        miss == ~table_cache[key]
        stored == [table_cache EXCEPT ![key] = TRUE]
    IN  IF miss /\ ReflectedColumns(table_name) = {}
        THEN [exc |-> NoSuchTableError(table_name), cache |-> table_cache, events |-> 0]
        ELSE IF miss /\ client = "async" /\ event_handlers.on_new_table
        THEN IF hraises /\ ~ignore_event_errors
             THEN [exc |-> HandlerError, cache |-> table_cache, events |-> 1]
             ELSE [exc |-> NoExc, cache |-> stored, events |-> 1]
        ELSE [exc |-> NoExc, cache |-> stored, events |-> 0]

\* --------------------------------------------------------------- execute
IsSelect(stmt) == stmt \in {"catalog", "select", "custom_select", "custom_select_missing"}

TargetExists(stmt) == stmt # "custom_select_missing"

TableRows == { [id |-> 1, name |-> "audit_a", value |-> 10] }

ResultRows(stmt, table_name) ==
    CASE stmt = "catalog" -> CatalogRows(table_name)
      [] stmt \in {"select", "custom_select"} -> TableRows
      [] OTHER -> {}

Ok == [stage |-> "none", exc |-> NoExc]

\* The errors the engine raises: one with a fatal signature, one without.
Errors == { Exc("OperationalError", "Lost connection to MySQL server"),
            Exc("ProgrammingError", GenericMessage) }

TimeoutError == Exc("TimeoutError", "")

\* An execute that never commits.
CommitsNever(auto_commit) == FALSE

\* _execute_and_commit commits when auto_commit; DataBase.execute always does.
Commits(auto_commit) == IF client = "async" THEN auto_commit ELSE TRUE

\* What the engine may do with the statement of call c.
ExecOutcomes(c) ==
    LET stages == {"connect", "execute"}
                  \cup (IF TargetExists(c.stmt) THEN {"receive"} ELSE {})
                  \cup (IF TargetExists(c.stmt) /\ Commits(c.auto_commit)
                        THEN {"commit"} ELSE {})
    IN  (IF TargetExists(c.stmt) THEN {Ok} ELSE {})
        \cup { [stage |-> s, exc |-> e] : s \in stages, e \in Errors }
        \cup (IF client = "async"
              THEN { [stage |-> s, exc |-> TimeoutError] : s \in stages \ {"connect", "receive"} }
              ELSE {})

\* The except clauses of AsyncDataBase.execute; DataBase.execute has none.
ExecuteExcept(dbr, e) ==
    IF client = "async"
    THEN [dbr EXCEPT !.error_info = e.msg, !.successful = FALSE]
    ELSE dbr

\* An except clause that invalidates the connection on every error.
InvalidatesAlways(e) == client = "async"

Invalidates(e) ==
    client = "async" /\ e.type # "TimeoutError" /\ _is_fatal_mysql_protocol_error(e)

execute(stmt, table_name, auto_commit, o) ==
    LET dbr == DataBaseResponse
        e   == o.exc
    IN  CASE o.stage = "none" ->
               [dbr |-> Receive(dbr, ResultRows(stmt, table_name)), exc |-> NoExc,
                executed |-> TRUE, committed |-> Commits(auto_commit),
                invalidated |-> FALSE]
          [] o.stage = "connect" ->
               [dbr |-> dbr, exc |-> e, executed |-> FALSE, committed |-> FALSE,
                invalidated |-> FALSE]
          [] o.stage = "execute" ->
               [dbr |-> ExecuteExcept(dbr, e), exc |-> e, executed |-> FALSE,
                committed |-> FALSE, invalidated |-> Invalidates(e)]
          [] o.stage = "commit" ->
               [dbr |-> ExecuteExcept(dbr, e), exc |-> e, executed |-> TRUE,
                committed |-> FALSE, invalidated |-> Invalidates(e)]
          [] o.stage = "receive" ->
               [dbr |-> ExecuteExcept(ReceiveFailed(dbr, e), e), exc |-> e,
                executed |-> TRUE, committed |-> Commits(auto_commit),
                invalidated |-> Invalidates(e)]

\* ------------------------------------------------------- except branches
\* run's except branch as it was before the re-raise: the failure is swallowed
\* and the response of run is returned.
RunExceptSwallows(c, e) ==
    [c EXCEPT !.dbr = [c.dbr EXCEPT !.error_info = e.type],
              !.ret = DbrRet([c.dbr EXCEPT !.error_info = e.type]),
              !.pc = "done"]

\* The except branch of run: the async client records error_info and raises
\* on_query_error before the re-raise; the sync client marks the response.
RunExcept(c, e) ==
    IF client = "async"
    THEN [c EXCEPT !.dbr = [c.dbr EXCEPT !.error_info = e.type],
                   !.exc = e, !.pc = "event"]
    ELSE [c EXCEPT !.dbr = MarkFailed(c.dbr, e), !.exc = e, !.pc = "done"]

\* The except branch of select/insert/update/delete/clear_table; only the
\* async select raises on_query_error.
CrudExcept(c, e) ==
    [c EXCEPT !.dbr = MarkFailed(c.dbr, e), !.exc = e,
              !.pc = IF client = "async" /\ c.op = "select" THEN "event" ELSE "done"]

ExceptFor(c, e) ==
    IF c.stmt = "catalog" \/ c.op \in RunOps THEN RunExcept(c, e)
    ELSE IF c.op \in CrudOps THEN CrudExcept(c, e)
    ELSE [c EXCEPT !.exc = e, !.pc = "done"]

\* ------------------------------------------------------- get_header_info
\* The tail of get_header_info with the emptiness test left out.
GetHeaderInfoTailUnchecked(key, hdrRsp) ==
    LET res == [id |-> nextId, cols |-> { convert_header_info(x) : x \in hdrRsp.rows }]
    IN  [exc |-> NoExc, map |-> res,
         cache |-> [_header_info_cache EXCEPT ![key] = res], nextId |-> nextId + 1]

\* The tail of get_header_info with the store into the cache left out.
GetHeaderInfoTailUncached(key, hdrRsp) ==
    IF ~hdrRsp.successful \/ Cardinality(hdrRsp.rows) = 0
    THEN [exc |-> SchemaQueryError(key[1], key[2]), map |-> NoMap,
          cache |-> _header_info_cache, nextId |-> nextId]
    ELSE LET res == [id |-> nextId,
                     cols |-> { convert_header_info(x) : x \in hdrRsp.rows }]
         IN  [exc |-> NoExc, map |-> res,
              cache |-> _header_info_cache, nextId |-> nextId + 1]

\* get_header_info after run returned hdrRsp: the test, the new dict, the store.
GetHeaderInfoTail(key, hdrRsp) ==
    IF ~hdrRsp.successful \/ Cardinality(hdrRsp.rows) = 0
    THEN [exc |-> SchemaQueryError(key[1], key[2]), map |-> NoMap,
          cache |-> _header_info_cache, nextId |-> nextId]
    ELSE LET res == [id |-> nextId,
                     cols |-> { convert_header_info(x) : x \in hdrRsp.rows }]
         IN  [exc |-> NoExc, map |-> res,
              cache |-> [_header_info_cache EXCEPT ![key] = res], nextId |-> nextId + 1]

\* ---------------------------------------------------------- correct_types
\* correct_types asking the catalog whether or not a table was supplied.
UsesCatalogAlways(table_supplied) == TRUE

\* correct_types: coldata comes from get_header_info only when table is None.
UsesCatalog(table_supplied) == ~table_supplied

\* The statement is built; textual returns its text, otherwise execute is next.
BuildAndGo(c) ==
    IF c.textual
    THEN [c EXCEPT !.ret = TextRet, !.pc = "done"]
    ELSE [c EXCEPT !.stmt = c.op, !.auto_commit = (c.op # "select"), !.pc = "exec"]

\* The loops of correct_types over c.records, and what follows them in c.op.
ConvertAndGo(c, coldata) ==
    LET r  == ConvertRecords(c.records, 1, coldata)
        c1 == [c EXCEPT !.records = r.records]
    IN  IF c.op = "correct_types"
        THEN [c1 EXCEPT !.exc = r.exc, !.pc = "done",
                        !.ret = IF r.exc = NoExc THEN RecordsRet ELSE NoRet]
        ELSE IF r.exc # NoExc THEN CrudExcept(c1, r.exc)
        ELSE BuildAndGo(c1)

\* correct_types up to its loops: the table's columns, the cached map, or the
\* catalog query of get_header_info.
CorrectTypes(c, table_supplied) ==
    LET key == ResolveKey(c.database, c.table_name)
    IN  IF ~UsesCatalog(table_supplied)
        THEN ConvertAndGo(c, _coldata_from_table(c.table_name))
        ELSE IF _header_info_cache[key] # NoMap
        THEN ConvertAndGo(c, _header_info_cache[key].cols)
        ELSE [c EXCEPT !.stmt = "catalog", !.auto_commit = FALSE,
                       !.dbr = DataBaseResponse, !.pc = "exec"]

\* ------------------------------------------------ raise_event("on_query_error")
\* raise_event finding no handler to call whatever is registered.
raise_event_unheard(c) == [c EXCEPT !.pc = "done"]

\* raise_event: the registered handler, if any, is called with (exc, tb, dbr).
raise_event(c) ==
    IF event_handlers.on_query_error
    THEN [c EXCEPT !.handler_calls = @ + 1, !.handed = c.dbr,
                   !.handed_exc = c.exc, !.pc = "handler"]
    ELSE [c EXCEPT !.pc = "done"]

\* ---------------------------------------------------------------- actions
\* run(query): the response is created and execute is next.
Run(query) ==
    /\ Ready
    /\ call' = [NewCall("run", DefaultDatabase, ExistingTable) EXCEPT
                  !.stmt = query, !.auto_commit = ~IsSelect(query),
                  !.dbr = DataBaseResponse, !.pc = "exec"]
    /\ last' = NoLast
    /\ UNCHANGED <<client, event_handlers, ignore_event_errors, _header_info_cache,
                   table_cache, nextId, cond, pager, sideVars>>

\* execute(engine, query, auto_commit=...) called directly.
ExecuteCall(query, auto_commit) ==
    /\ Ready
    /\ client = "sync" => auto_commit
    /\ call' = [NewCall("execute", DefaultDatabase, ExistingTable) EXCEPT
                  !.stmt = query, !.auto_commit = auto_commit, !.pc = "exec"]
    /\ last' = NoLast
    /\ UNCHANGED <<client, event_handlers, ignore_event_errors, _header_info_cache,
                   table_cache, nextId, cond, pager, sideVars>>

\* Whether the on_new_table handler raises, where get_table would call it.
HandlerChoices(table_name) ==
    IF /\ client = "async" /\ event_handlers.on_new_table
       /\ ~table_cache[<<DefaultDatabase, table_name>>]
       /\ ReflectedColumns(table_name) # {}
    THEN BOOLEAN ELSE {FALSE}

\* A CRUD method up to execute: get_table, correct_types for the records of
\* insert/upsert, the statement, textual.
CrudBody(op, table_name, textual, records, hraises) ==
    /\ Ready
    /\ hraises \in HandlerChoices(table_name)
    /\ LET c0 == [NewCall(op, DefaultDatabase, table_name) EXCEPT
                    !.textual = textual, !.records = records,
                    !.dbr = DataBaseResponse]
           gt == get_table(DefaultDatabase, table_name, hraises)
           c1 == [c0 EXCEPT !.new_table_events = gt.events,
                            !.got_table = (gt.exc = NoExc),
                            !.handler_raised = (hraises /\ gt.events = 1)]
       IN  /\ table_cache' = gt.cache
           /\ call' = IF gt.exc # NoExc THEN CrudExcept(c1, gt.exc)
                      ELSE IF op \in {"insert", "upsert"}
                      THEN CorrectTypes([c1 EXCEPT !.table_arg = TRUE], TRUE)
                      ELSE BuildAndGo(c1)
    /\ last' = NoLast
    /\ UNCHANGED <<client, event_handlers, ignore_event_errors, _header_info_cache,
                   nextId, cond, pager, sideVars>>

\* select, update, delete, clear_table.
Crud(op, table_name, textual, hraises) ==
    CrudBody(op, table_name, textual, <<>>, hraises)

\* insert and upsert (insert with upsert=True).
Write(op, table_name, textual, records, hraises) ==
    /\ nextId <= MaxObjects
    /\ CrudBody(op, table_name, textual, records, hraises)

\* get_header_info(database, table_name) up to run: the cache lookup.
GetHeaderInfo(database, table_name) ==
    /\ Ready
    /\ nextId <= MaxObjects
    /\ LET key == ResolveKey(database, table_name)
           c0  == NewCall("get_header_info", database, table_name)
       IN  call' = IF _header_info_cache[key] # NoMap
                   THEN [c0 EXCEPT !.ret = MapRet(_header_info_cache[key]),
                                   !.pc = "done"]
                   ELSE [c0 EXCEPT !.stmt = "catalog", !.auto_commit = FALSE,
                                   !.dbr = DataBaseResponse, !.pc = "exec"]
    /\ last' = LastOf(call)
    /\ UNCHANGED <<client, event_handlers, ignore_event_errors, _header_info_cache,
                   table_cache, nextId, cond, pager, sideVars>>

\* correct_types(database, table_name, records, table) called directly; a table
\* handle can only be one of the existing table.
CorrectTypesCall(table_name, records, table_supplied) ==
    /\ Ready
    /\ nextId <= MaxObjects
    /\ table_supplied => table_name = ExistingTable
    /\ call' = CorrectTypes([NewCall("correct_types", DefaultDatabase, table_name)
                               EXCEPT !.records = records,
                                      !.table_arg = table_supplied],
                            table_supplied)
    /\ last' = NoLast
    /\ UNCHANGED <<client, event_handlers, ignore_event_errors, _header_info_cache,
                   table_cache, nextId, cond, pager, sideVars>>

\* execute runs the statement of the call; the engine picks what happens.
Execute ==
    /\ call.pc = "exec"
    /\ \E o \in ExecOutcomes(call) :
         LET r   == execute(call.stmt, call.table_name, call.auto_commit, o)
             key == ResolveKey(call.database, call.table_name)
             c1  == [call EXCEPT
                       !.exec_dbr = r.dbr, !.exec_exc = r.exc,
                       !.exec = IF o.stage = "none" THEN "ok" ELSE o.stage,
                       !.executed = r.executed, !.committed = r.committed,
                       !.invalidated = r.invalidated,
                       !.catalog_queried = @ \/ call.stmt = "catalog"]
             t   == GetHeaderInfoTail(key, r.dbr)
         IN  IF r.exc # NoExc
             THEN /\ call' = ExceptFor(c1, r.exc)
                  /\ UNCHANGED <<_header_info_cache, nextId>>
             ELSE IF call.stmt # "catalog"
             THEN /\ call' = [c1 EXCEPT !.dbr = r.dbr, !.ret = DbrRet(r.dbr),
                                        !.pc = "done"]
                  /\ UNCHANGED <<_header_info_cache, nextId>>
             ELSE /\ _header_info_cache' = t.cache
                  /\ nextId' = t.nextId
                  /\ call' = IF t.exc # NoExc
                             THEN IF call.op \in CrudOps
                                  THEN CrudExcept([c1 EXCEPT !.dbr = r.dbr], t.exc)
                                  ELSE [c1 EXCEPT !.dbr = r.dbr, !.exc = t.exc,
                                                  !.pc = "done"]
                             ELSE IF call.op = "get_header_info"
                             THEN [c1 EXCEPT !.dbr = r.dbr, !.ret = MapRet(t.map),
                                             !.pc = "done"]
                             ELSE ConvertAndGo([c1 EXCEPT !.dbr = r.dbr], t.map.cols)
    /\ UNCHANGED <<client, event_handlers, ignore_event_errors, table_cache,
                   last, cond, pager, sideVars>>

\* The except branch reaches raise_event("on_query_error", exc, tb, dbr).
RaiseEvent ==
    /\ call.pc = "event"
    /\ call' = raise_event(call)
    /\ UNCHANGED <<client, event_handlers, ignore_event_errors, _header_info_cache,
                   table_cache, nextId, last, cond, pager, sideVars>>

\* The handler ends, normally or by raising; raise_event swallows what it raises
\* when ignore_event_errors, and the except branch then re-raises the query's error.
HandlerReturn(raises) ==
    /\ call.pc = "handler"
    /\ call' = [call EXCEPT !.handler_done = TRUE, !.pc = "exit",
                            !.handler_raised = @ \/ raises,
                            !.exc = IF raises /\ ~ignore_event_errors
                                    THEN HandlerError ELSE @]
    /\ UNCHANGED <<client, event_handlers, ignore_event_errors, _header_info_cache,
                   table_cache, nextId, last, cond, pager, sideVars>>

\* After the handler the except branch re-raises: the caller gets the exception.
Deliver ==
    /\ call.pc = "exit"
    /\ call' = [call EXCEPT !.pc = "done"]
    /\ UNCHANGED <<client, event_handlers, ignore_event_errors, _header_info_cache,
                   table_cache, nextId, last, cond, pager, sideVars>>

Databases == {"", DefaultDatabase}
Queries == {"custom_select", "custom_select_missing", "custom_mutation"}

IdleCond ==
    [pc |-> "idle", fn |-> "none", value |-> NULL, values |-> {}, _not |-> FALSE,
     include_null |-> "None", row |-> NULL, result |-> "none"]

IdlePager ==
    [pc |-> "idle", rows |-> <<>>, limit |-> 0, offset |-> 0, has_more |-> FALSE,
     pages |-> <<>>]

IdleText ==
    [pc |-> "idle", path |-> "none", type_name |-> "none", DATA_TYPE |-> "none",
     raw |-> <<>>, value |-> <<>>]
NoStmt ==
    [kind |-> "none", record |-> <<>>, on_duplicate_key_update |-> {}, where |-> NoWhere]

NoWrite == [op |-> "none", record |-> <<>>, update_keys |-> {}]

IdleStore ==
    [pc |-> "idle", rows |-> {}, op |-> "none", record |-> <<>>, update_keys |-> {},
     where |-> NoWhere, textual |-> FALSE, stmt |-> NoStmt, ret |-> "none", result |-> {},
     exc |-> NoExc, executed |-> FALSE, committed |-> FALSE, before |-> {},
     prev |-> NoWrite]
DB_CONCURRENCY_DEFAULT == 10

Tasks == 1..MaxTasks

\* No client yet: no semaphore object, no task.
IdleSem ==
    [_max_db_concurrency |-> 0, _db_semaphor |-> 0,
     value |-> [s \in 1..MaxSemaphores |-> 0],
     task |-> [t \in Tasks |-> [pc |-> "idle", s |-> 0]]]

\* A Python value handed as a condition: k is "scalar", "callable" (greater_than(v)),
\* "list" or "map"; key is its key when it is an entry of a mapping; kids are
\* the items of a list or the entries of a mapping, in order.
Node(k, key, v, kids) == [k |-> k, key |-> key, v |-> v, kids |-> kids]
NoNode == Node("none", "", 0, <<>>)

\* A SQL expression: "eq" and "gt" compare a column with a value, "and" and
\* "or" are the clause lists and_(...) / or_(...) build.
Clause(k, col, v, kids) == [k |-> k, col |-> col, v |-> v, kids |-> kids]

IdleTree ==
    [pc |-> "idle", op |-> "none", params |-> NoNode, exc |-> "none", where |-> <<>>,
     executed |-> FALSE, rows |-> {}]

\* No get_header_info call yet: no catalog query issued, every task idle.
IdleTasks ==
    [queries |-> [k \in Keys |-> 0],
     task |-> [t \in Tasks |-> [pc |-> "idle", key |-> <<"", "">>, ret |-> NoMap,
                                exc |-> NoExc]]]

\* No get_table call yet: table_cache is empty, no handle was created, no
\* on_new_table event fired. A handle is a number, 0 for none.
IdleHandles ==
    [table_cache |-> [k \in Keys |-> 0], expired |-> [k \in Keys |-> FALSE],
     created |-> [k \in Keys |-> 0], events |-> [k \in Keys |-> 0], next |-> 1,
     task |-> [t \in Tasks |-> [pc |-> "idle", key |-> <<"", "">>, h |-> 0, how |-> "none",
                                exc |-> NoExc]]]

\* No insert_pages / upsert_pages generator yet.
IdleBatch ==
    [pc |-> "idle", op |-> "none", records |-> <<>>, upsert |-> FALSE, page_size |-> 0,
     start_ix |-> 0, end_ix |-> 0, at_yield |-> FALSE, requests |-> 0, calls |-> <<>>]

\* What a caller can observe of one client: what the last call returned or
\* raised, the commits it issued, and the keys of the two caches.
IdlePairClient ==
    [ret |-> "none", commits |-> 0, _header_info_cache |-> {}, table_cache |-> {}]

\* The same call made on a DataBase and on an AsyncDataBase; none made yet.
IdlePair ==
    [pc |-> "idle", op |-> "none", key |-> <<"", "">>, outcome |-> "none",
     sync |-> IdlePairClient, async |-> IdlePairClient]

Init ==
    /\ client \in {"async", "sync"}
    /\ event_handlers \in [on_new_table : BOOLEAN, on_query_error : BOOLEAN]
    /\ ignore_event_errors \in BOOLEAN
    /\ client = "sync" =>
         /\ event_handlers = [on_new_table |-> FALSE, on_query_error |-> FALSE]
         /\ ignore_event_errors = FALSE
    /\ _header_info_cache = [k \in Keys |-> NoMap]
    /\ table_cache = [k \in Keys |-> FALSE]
    /\ nextId = 1
    /\ call = [NewCall("none", "", "") EXCEPT
                 !.cache_at_start = [k \in Keys |-> NoMap]]
    /\ last = NoLast
    /\ cond = IdleCond
    /\ pager = IdlePager
    /\ text = IdleText
    /\ store = IdleStore
    /\ sem = IdleSem
    /\ tree = IdleTree
    /\ tasks = IdleTasks
    /\ handles = IdleHandles
    /\ batch = IdleBatch
    /\ pair = IdlePair

Next ==
    \/ \E q \in Queries : Run(q)
    \/ \E q \in Queries, ac \in BOOLEAN : ExecuteCall(q, ac)
    \/ \E op \in CrudOps \ WriteOps, t \in Tables, tx \in BOOLEAN, hr \in BOOLEAN :
          Crud(op, t, tx, hr)
    \/ \E op \in WriteOps, t \in Tables, tx \in BOOLEAN, rs \in RecordLists,
          hr \in BOOLEAN : Write(op, t, tx, rs, hr)
    \/ Execute
    \/ RaiseEvent
    \/ \E raises \in BOOLEAN : HandlerReturn(raises)
    \/ Deliver

Spec == Init /\ [][Next]_vars

\* The schema side alone: get_header_info, correct_types, insert and upsert.
NextSchema ==
    \/ \E d \in Databases, t \in Tables : GetHeaderInfo(d, t)
    \/ \E t \in Tables, rs \in RecordLists, ts \in BOOLEAN : CorrectTypesCall(t, rs, ts)
    \/ \E op \in WriteOps, t \in Tables, tx \in BOOLEAN, rs \in RecordLists,
          hr \in BOOLEAN : Write(op, t, tx, rs, hr)
    \/ Execute
    \/ RaiseEvent
    \/ \E raises \in BOOLEAN : HandlerReturn(raises)
    \/ Deliver

SpecSchema == Init /\ [][NextSchema]_vars

\* ------------------------------------------------------ SpecCond actions
IncludeNullArgs == {"None", "True", "False"}
ValueLists == { vs \in SUBSET Strings : Cardinality(vs) <= MaxValues }

\* equal_to(value, _not, include_null) builds a predicate.
EqualTo(value, _not, include_null) ==
    /\ cond.pc \in {"idle", "evaluated"}
    /\ cond' = [IdleCond EXCEPT !.pc = "built", !.fn = "equal_to", !.value = value,
                                !._not = _not, !.include_null = include_null]
    /\ UNCHANGED <<clientVars, pager, sideVars>>

\* in_(values, _not, include_null) builds a predicate.
In(values, _not, include_null) ==
    /\ cond.pc \in {"idle", "evaluated"}
    /\ cond' = [IdleCond EXCEPT !.pc = "built", !.fn = "in_", !.values = values,
                                !._not = _not, !.include_null = include_null]
    /\ UNCHANGED <<clientVars, pager, sideVars>>

\* The predicate is applied to the column of a row in a WHERE clause.
Evaluate(row) ==
    /\ cond.pc = "built"
    /\ cond' = [cond EXCEPT
                  !.pc = "evaluated", !.row = row,
                  !.result = IF cond.fn = "equal_to"
                             THEN equal_to(cond.value, cond._not, cond.include_null, row)
                             ELSE in_(cond.values, cond._not, cond.include_null, row)]
    /\ UNCHANGED <<clientVars, pager, sideVars>>

InitPure ==
    /\ client = "sync"
    /\ event_handlers = [on_new_table |-> FALSE, on_query_error |-> FALSE]
    /\ ignore_event_errors = FALSE
    /\ _header_info_cache = [k \in Keys |-> NoMap]
    /\ table_cache = [k \in Keys |-> FALSE]
    /\ nextId = 1
    /\ call = [NewCall("none", "", "") EXCEPT
                 !.cache_at_start = [k \in Keys |-> NoMap]]
    /\ last = NoLast
    /\ cond = IdleCond
    /\ pager = IdlePager
    /\ text = IdleText
    /\ store = IdleStore
    /\ sem = IdleSem
    /\ tree = IdleTree
    /\ tasks = IdleTasks
    /\ handles = IdleHandles
    /\ batch = IdleBatch
    /\ pair = IdlePair

NextCond ==
    \/ \E v \in SqlValues, n \in BOOLEAN, i \in IncludeNullArgs : EqualTo(v, n, i)
    \/ \E vs \in ValueLists, n \in BOOLEAN, i \in IncludeNullArgs : In(vs, n, i)
    \/ \E row \in SqlValues : Evaluate(row)

SpecCond == InitPure /\ [][NextCond]_vars

\* ----------------------------------------------------- SpecPages actions
\* The records the paginated select ranges over: M rows in a fixed order.
Records(M) == [i \in 1..M |-> i]

Min(a, b) == IF a < b THEN a ELSE b

\* select(..., limit=limit, offset=offset): LIMIT and OFFSET are applied only
\* when limit is truthy.
SelectLimitOffset(rows, limit, offset) ==
    IF limit # 0
    THEN SubSeq(rows, offset + 1, Min(offset + limit, Len(rows)))
    ELSE rows

\* One turn of the loop of select_pages with the offset moved past the extra row.
select_pages_step_skipping(p) ==
    LET dbr  == SelectLimitOffset(p.rows, p.limit + 1, p.offset)
        data == SubSeq(dbr, 1, Min(Len(dbr), p.limit))
    IN  [p EXCEPT !.has_more = Len(dbr) > p.limit,
                  !.offset = p.offset + p.limit + 1,
                  !.pages = Append(p.pages, data)]

\* One turn of the loop of select_pages: fetch limit+1 rows, yield at most limit.
select_pages_step(p) ==
    LET dbr  == SelectLimitOffset(p.rows, p.limit + 1, p.offset)
        data == SubSeq(dbr, 1, Min(Len(dbr), p.limit))
    IN  [p EXCEPT !.has_more = Len(dbr) > p.limit,
                  !.offset = p.offset + p.limit,
                  !.pages = Append(p.pages, data)]

\* select_pages(..., page_size) is called: a generator that has not run yet.
SelectPages(M, page_size) ==
    /\ pager.pc \in {"idle", "exhausted"}
    /\ pager' = [pc |-> "running", rows |-> Records(M), limit |-> page_size,
                 offset |-> 0, has_more |-> TRUE, pages |-> <<>>]
    /\ UNCHANGED <<clientVars, cond, sideVars>>

\* The consumer asks for the next page and the loop has another turn.
NextPage ==
    /\ pager.pc = "running"
    /\ pager.has_more
    /\ Len(pager.pages) < MaxPages
    /\ pager' = select_pages_step(pager)
    /\ UNCHANGED <<clientVars, cond, sideVars>>

\* The consumer asks for the next page and the loop is over.
Exhaust ==
    /\ pager.pc = "running"
    /\ ~pager.has_more
    /\ pager' = [pager EXCEPT !.pc = "exhausted"]
    /\ UNCHANGED <<clientVars, cond, sideVars>>

NextPages ==
    \/ \E M \in 0..MaxRows, page_size \in 0..MaxPageSize : SelectPages(M, page_size)
    \/ NextPage
    \/ Exhaust

SpecPages == InitPure /\ [][NextPages]_vars

\* ------------------------------------------------------ SpecText actions
exceptText == <<clientVars, cond, pager, store, sem, tree, tasks, handles, batch, pair>>

\* The column entry convert_vals will use: from the reflected table (insert,
\* upsert) or from the catalog row (correct_types without a table).
TextColumn(path, col) ==
    /\ text.pc \in {"idle", "coerced"}
    /\ path = "catalog" => col.type_name # "JSON"
    /\ text' = [IdleText EXCEPT
                  !.pc = "coldata", !.path = path, !.type_name = col.type_name,
                  !.DATA_TYPE =
                      IF path = "table"
                      THEN type_map(_SA_TYPE_NAME_TO_MAP_KEY(col.type_name))
                      ELSE type_map(Upper(col.DATA_TYPE))]
    /\ UNCHANGED exceptText

\* convert_vals on a string of n characters for that column.
CoerceText(n) ==
    /\ text.pc = "coldata"
    /\ text' = [text EXCEPT !.pc = "coerced", !.raw = MakeStr(n),
                            !.value = CoercedValue(text.DATA_TYPE, MakeStr(n))]
    /\ UNCHANGED exceptText

NextText ==
    \/ \E path \in {"table", "catalog"}, col \in TextColumns : TextColumn(path, col)
    \/ \E n \in TextLengths : CoerceText(n)

SpecText == InitPure /\ [][NextText]_vars

\* ----------------------------------------------------- SpecStore actions
exceptStore == <<clientVars, cond, pager, text, sem, tree, tasks, handles, batch, pair>>

\* A method that executes its statement whatever textual says.
RunStatementAlways(rows, stmt, textual) ==
    LET a == ApplyStatement(rows, stmt)
    IN  [rows |-> IF Commits(stmt.kind # "select") THEN a.rows ELSE rows,
         ret |-> IF a.exc = NoExc THEN "dbr" ELSE "raised", result |-> a.result,
         exc |-> a.exc, executed |-> TRUE,
         committed |-> a.exc = NoExc /\ Commits(stmt.kind # "select")]

\* The end of a CRUD method: textual returns the statement's text, otherwise
\* execute runs the statement, committing unless it is a select.
RunStatement(rows, stmt, textual) ==
    IF textual
    THEN [rows |-> rows, ret |-> "text", result |-> {}, exc |-> NoExc,
          executed |-> FALSE, committed |-> FALSE]
    ELSE LET a == ApplyStatement(rows, stmt)
         IN  [rows |-> IF Commits(stmt.kind # "select") THEN a.rows ELSE rows,
              ret |-> IF a.exc = NoExc THEN "dbr" ELSE "raised", result |-> a.result,
              exc |-> a.exc, executed |-> TRUE,
              committed |-> a.exc = NoExc /\ Commits(stmt.kind # "select")]

\* The write this call was, for the call after it: an insert or upsert that
\* was executed and raised nothing.
WriteOf(st) ==
    IF st.op \in WriteOps /\ st.ret = "dbr"
    THEN [op |-> st.op, record |-> st.record, update_keys |-> st.update_keys]
    ELSE NoWrite

\* A CRUD call on the table from its statement on.
StoreCall(op, record, update_keys, where, textual, stmt) ==
    LET r == RunStatement(store.rows, stmt, textual)
    IN  store' = [pc |-> "done", rows |-> r.rows, op |-> op, record |-> record,
                  update_keys |-> update_keys, where |-> where, textual |-> textual,
                  stmt |-> stmt, ret |-> r.ret, result |-> r.result, exc |-> r.exc,
                  executed |-> r.executed, committed |-> r.committed,
                  before |-> store.rows, prev |-> WriteOf(store)]

\* insert(database, table_name, [record], textual=textual)
StoreInsert(record, textual) ==
    /\ StoreCall("insert", record, {}, NoWhere, textual,
                 [NoStmt EXCEPT !.kind = "insert", !.record = CoerceRecord(record)])
    /\ UNCHANGED exceptStore

\* upsert(database, table_name, [record], update_keys=update_keys, textual=textual);
\* {} stands for update_keys=None.
StoreUpsert(record, update_keys, textual) ==
    /\ StoreCall("upsert", record, update_keys, NoWhere, textual,
                 [NoStmt EXCEPT !.kind = "insert", !.record = CoerceRecord(record),
                                !.on_duplicate_key_update = UpdateKeys(update_keys)])
    /\ UNCHANGED exceptStore

\* select(database, table_name, params=where, textual=textual)
StoreSelect(where, textual) ==
    /\ StoreCall("select", <<>>, {}, where, textual,
                 [NoStmt EXCEPT !.kind = "select", !.where = where])
    /\ UNCHANGED exceptStore

\* update(database, table_name, update={"value": value}, where=where, textual=textual)
StoreUpdate(value, where, textual) ==
    /\ StoreCall("update", [value |-> value], {}, where, textual,
                 [NoStmt EXCEPT !.kind = "update", !.record = [value |-> value],
                                !.where = where])
    /\ UNCHANGED exceptStore

\* delete(database, table_name, where, textual=textual)
StoreDelete(where, textual) ==
    /\ StoreCall("delete", <<>>, {}, where, textual,
                 [NoStmt EXCEPT !.kind = "delete", !.where = where])
    /\ UNCHANGED exceptStore

\* clear_table(database, table_name, textual=textual)
StoreClearTable(textual) ==
    /\ StoreCall("clear_table", <<>>, {}, NoWhere, textual, [NoStmt EXCEPT !.kind = "delete"])
    /\ UNCHANGED exceptStore

\* The conditions handed to select, update and delete.
Wheres ==
    {NoWhere} \cup { [k |-> "name", name |-> MakeStr(n), v |-> NULL] : n \in NameLengths }
              \cup { [k |-> "value", name |-> <<>>, v |-> "10"] }

NextStore ==
    \/ \E record \in StoreRecords, tx \in BOOLEAN : StoreInsert(record, tx)
    \/ \E record \in StoreRecords, uk \in {{}, {"value"}}, tx \in BOOLEAN :
          StoreUpsert(record, uk, tx)
    \/ \E where \in Wheres, tx \in BOOLEAN : StoreSelect(where, tx)
    \/ \E where \in Wheres \ {NoWhere}, tx \in BOOLEAN : StoreUpdate("20", where, tx)
    \/ \E where \in Wheres \ {NoWhere}, tx \in BOOLEAN : StoreDelete(where, tx)
    \/ \E tx \in BOOLEAN : StoreClearTable(tx)

SpecStore == InitPure /\ [][NextStore]_vars

\* ------------------------------------------------------- SpecSem actions
\* One AsyncDataBase and the tasks that call execute on it. A semaphore object
\* is a number s; sem.value[s] is its counter. A task is "idle", "waiting" on
\* the semaphore it found in self._db_semaphor, or "inside" the guarded section.
exceptSem == <<clientVars, cond, pager, text, store, tree, tasks, handles, batch, pair>>

\* The concurrency limits handed to the constructor and to the setter; 0 is falsy.
Limits == {0, 1, 2}

\* __init__: self._max_db_concurrency = max_db_concurrency and the first semaphore.
InitSem ==
    /\ client = "async"
    /\ event_handlers = [on_new_table |-> FALSE, on_query_error |-> FALSE]
    /\ ignore_event_errors = FALSE
    /\ _header_info_cache = [k \in Keys |-> NoMap]
    /\ table_cache = [k \in Keys |-> FALSE]
    /\ nextId = 1
    /\ call = [NewCall("none", "", "") EXCEPT
                 !.cache_at_start = [k \in Keys |-> NoMap]]
    /\ last = NoLast
    /\ cond = IdleCond
    /\ pager = IdlePager
    /\ text = IdleText
    /\ store = IdleStore
    /\ tree = IdleTree
    /\ tasks = IdleTasks
    /\ handles = IdleHandles
    /\ batch = IdleBatch
    /\ pair = IdlePair
    /\ \E limit \in (Limits \ {0}) \cup {DB_CONCURRENCY_DEFAULT} :
          sem = [IdleSem EXCEPT !._max_db_concurrency = limit, !._db_semaphor = 1,
                                !.value[1] = limit]

\* The number of executions inside the guarded section of execute.
InFlight == Cardinality({ t \in Tasks : sem.task[t].pc = "inside" })

\* async with self._db_semaphor: the task takes the object now in the
\* attribute and enters if its counter allows, otherwise waits on that object.
Acquire(t) ==
    /\ sem.task[t].pc = "idle"
    /\ LET s == sem._db_semaphor
       IN  sem' = IF sem.value[s] > 0
                  THEN [sem EXCEPT !.value[s] = @ - 1,
                                   !.task[t] = [pc |-> "inside", s |-> s]]
                  ELSE [sem EXCEPT !.task[t] = [pc |-> "waiting", s |-> s]]
    /\ UNCHANGED exceptSem

\* A waiter is woken once the counter of the semaphore it waits on is positive.
Wake(t) ==
    /\ sem.task[t].pc = "waiting"
    /\ sem.value[sem.task[t].s] > 0
    /\ sem' = [sem EXCEPT !.value[sem.task[t].s] = @ - 1, !.task[t].pc = "inside"]
    /\ UNCHANGED exceptSem

\* The ways out of the guarded section: the return, the two except clauses,
\* and an error of engine.connect(), which no except clause sees.
ExitPaths == {"return", "timeout", "fatal", "generic", "connect"}

\* A guarded section that keeps its slot when the connection cannot be opened.
ReleaseUnlessConnectFails(t, path) ==
    /\ sem.task[t].pc = "inside"
    /\ sem' = [sem EXCEPT !.value[sem.task[t].s] = IF path = "connect" THEN @ ELSE @ + 1,
                          !.task[t] = [pc |-> "idle", s |-> 0]]
    /\ UNCHANGED exceptSem

\* The guarded section ends, by return or by exception: async with releases
\* the semaphore the task entered on every path.
Release(t, path) ==
    /\ sem.task[t].pc = "inside"
    /\ sem' = [sem EXCEPT !.value[sem.task[t].s] = @ + 1,
                          !.task[t] = [pc |-> "idle", s |-> 0]]
    /\ UNCHANGED exceptSem

\* db.max_db_concurrency = value: the limit and a new semaphore object.
SetMaxDbConcurrency(value) ==
    /\ sem._db_semaphor < MaxSemaphores
    /\ LET limit == IF value # 0 THEN value ELSE DB_CONCURRENCY_DEFAULT
           s     == sem._db_semaphor + 1
       IN  sem' = [sem EXCEPT !._max_db_concurrency = limit, !._db_semaphor = s,
                              !.value[s] = limit]
    /\ UNCHANGED exceptSem

NextSem ==
    \/ \E t \in Tasks : Acquire(t)
    \/ \E t \in Tasks : Wake(t)
    \/ \E t \in Tasks, path \in ExitPaths : Release(t, path)
    \/ \E value \in Limits : SetMaxDbConcurrency(value)

SpecSem == InitSem /\ [][NextSem]_vars

\* The executions in flight finish, and a waiter whose semaphore has a free
\* slot again and again is admitted (asyncio wakes waiters in order).
SpecSemFair ==
    /\ InitSem
    /\ [][NextSem]_vars
    /\ \A t \in Tasks : WF_vars(\E path \in ExitPaths : Release(t, path))
    /\ \A t \in Tasks : SF_vars(Wake(t))

\* ------------------------------------------------------ SpecTree actions
\* select, update and delete build their WHERE clause from a condition; the
\* statement then reaches the rows of a table that satisfy the clause.
exceptTree == <<clientVars, cond, pager, text, store, sem, tasks, handles, batch, pair>>

Junctions == {"_AND_", "_OR_"}

ConditionColumns == {"a", "b"}
ConditionValues == {1, 2}

\* The rows of the table the statements run against.
ConditionRows == [ConditionColumns -> ConditionValues]

\* table.c[key] == value, and greater_than(value)(table.c[key]).
ColumnEquals(key, value) == Clause("eq", key, value, <<>>)
greater_than(value, key) == Clause("gt", key, value, <<>>)

\* _process_condition(table, condition): the expression of one nested
\* condition, or the ValueError for a condition that is not a dict.
RECURSIVE _process_condition(_)
_process_condition(condition) ==
    IF condition.k # "map"
    THEN [exc |-> "ValueError", clause |-> Clause("none", "", 0, <<>>)]
    ELSE LET Entry(e) ==
                 IF e.key \in Junctions
                 THEN LET parts == [j \in 1..Len(e.kids) |-> _process_condition(e.kids[j])]
                      IN  [exc |-> IF \E j \in 1..Len(parts) : parts[j].exc # "none"
                                   THEN "ValueError" ELSE "none",
                           clause |-> Clause(IF e.key = "_AND_" THEN "and" ELSE "or", "", 0,
                                             [j \in 1..Len(parts) |-> parts[j].clause])]
                 ELSE IF e.k = "callable"
                 THEN [exc |-> "none", clause |-> greater_than(e.v, e.key)]
                 ELSE [exc |-> "none", clause |-> ColumnEquals(e.key, e.v)]
             conditions == [i \in 1..Len(condition.kids) |-> Entry(condition.kids[i])]
         IN  IF \E i \in 1..Len(conditions) : conditions[i].exc # "none"
             THEN [exc |-> "ValueError", clause |-> Clause("none", "", 0, <<>>)]
             ELSE IF Len(conditions) = 1
             THEN conditions[1]
             ELSE [exc |-> "none",
                   clause |-> Clause("and", "", 0,
                                     [i \in 1..Len(conditions) |-> conditions[i].clause])]

\* A construction that refuses a mapping without entries.
_construct_conditions_refusing_empty(params) ==
    [exc |-> IF params.kids = <<>> THEN "ValueError" ELSE "none", where |-> <<>>]

\* _construct_conditions(query, table, params): one where(...) per top-level
\* entry; params.items() of a value that is not a dict is an AttributeError.
_construct_conditions(params) ==
    IF params.k # "map"
    THEN [exc |-> "AttributeError", where |-> <<>>]
    ELSE LET Entry(e) ==
                 IF e.key \in Junctions
                 THEN _process_condition(Node("map", "", 0, <<e>>))
                 ELSE IF e.k = "callable"
                 THEN [exc |-> "none", clause |-> greater_than(e.v, e.key)]
                 ELSE [exc |-> "none", clause |-> ColumnEquals(e.key, e.v)]
             wheres == [i \in 1..Len(params.kids) |-> Entry(params.kids[i])]
         IN  IF \E i \in 1..Len(wheres) : wheres[i].exc # "none"
             THEN [exc |-> "ValueError", where |-> <<>>]
             ELSE [exc |-> "none", where |-> [i \in 1..Len(wheres) |-> wheres[i].clause]]

\* if params: the truth value Python gives a condition.
Truthy(params) ==
    CASE params.k \in {"map", "list"} -> params.kids # <<>>
      [] params.k = "scalar" -> params.v # 0
      [] params.k = "none" -> FALSE
      [] OTHER -> TRUE

\* and_() and or_() without arguments, and clause lists of nothing but such
\* lists, compile to an empty string, which the enclosing list leaves out.
RECURSIVE Blank(_)
Blank(c) ==
    c.k \in {"and", "or"} /\ \A i \in 1..Len(c.kids) : Blank(c.kids[i])

\* The row satisfies the compiled expression c, which is not blank.
RECURSIVE Holds(_, _)
Holds(c, row) ==
    CASE c.k = "eq" -> row[c.col] = c.v
      [] c.k = "gt" -> row[c.col] > c.v
      [] c.k = "and" -> \A i \in 1..Len(c.kids) : Blank(c.kids[i]) \/ Holds(c.kids[i], row)
      [] c.k = "or" -> \E i \in 1..Len(c.kids) : ~Blank(c.kids[i]) /\ Holds(c.kids[i], row)
      [] OTHER -> FALSE

\* The rows the statement reaches: every where(...) criterion that is not
\* blank holds; a statement with no criterion left has no WHERE.
Reached(where) ==
    { row \in ConditionRows :
        \A i \in 1..Len(where) : Blank(where[i]) \/ Holds(where[i], row) }

\* The body of select / update / delete up to the execution: select skips a
\* falsy params, update and delete always construct.
Statement(op, params) ==
    LET built == IF op = "select" /\ ~Truthy(params)
                 THEN [exc |-> "none", where |-> <<>>]
                 ELSE _construct_conditions(params)
    IN  [pc |-> "done", op |-> op, params |-> params, exc |-> built.exc,
         where |-> built.where, executed |-> built.exc = "none",
         rows |-> IF built.exc = "none" THEN Reached(built.where) ELSE {}]

\* ---- the conditions handed in
SeqsUpTo(S, n) == UNION { [1..m -> S] : m \in 0..n }

LeafEntries ==
    { Node("scalar", c, v, <<>>) : c \in ConditionColumns, v \in ConditionValues }
    \cup { Node("callable", c, 1, <<>>) : c \in ConditionColumns }

\* Mappings of columns only: empty, one entry, or one entry per column.
FlatMappings ==
    { Node("map", "", 0, es) :
        es \in { <<>> } \cup { <<e>> : e \in LeafEntries }
               \cup { <<e, f>> : e \in { x \in LeafEntries : x.key = "a" },
                                 f \in { x \in LeafEntries : x.key = "b" } } }

\* What is neither a mapping nor a callable: a bare scalar, a list.
Shapeless == { Node("scalar", "", 1, <<>>), Node("list", "", 0, <<>>) }

JunctionEntries(items, n) ==
    { Node("list", j, 0, l) : j \in Junctions, l \in SeqsUpTo(items, n) }

\* One _AND_ / _OR_ entry over a list of flat mappings and shapeless values.
OneLevel ==
    { Node("map", "", 0, <<e>>) :
        e \in JunctionEntries(FlatMappings \cup Shapeless, MaxConditions) }

\* A junction inside a junction, a junction next to a column, two junctions.
TwoLevels ==
    LET single == JunctionEntries(FlatMappings \cup Shapeless, 1)
        inner  == { Node("map", "", 0, <<e>>) : e \in single }
    IN  { Node("map", "", 0, <<e>>) : e \in JunctionEntries(inner, 1) }
        \cup { Node("map", "", 0, <<e, f>>) : e \in LeafEntries, f \in single }
        \cup { Node("map", "", 0, <<e, f>>) :
                 e \in { x \in single : x.key = "_AND_" },
                 f \in { x \in single : x.key = "_OR_" } }

\* params / where as the caller hands it: a mapping, or None, 0, a number, a list.
Conditions ==
    FlatMappings \cup OneLevel \cup TwoLevels \cup Shapeless
    \cup { NoNode, Node("scalar", "", 0, <<>>), Node("list", "", 0, <<Node("map", "", 0, <<>>)>>) }

TreeSelect(params) ==
    /\ tree.pc = "idle"
    /\ tree' = Statement("select", params)
    /\ UNCHANGED exceptTree

TreeUpdate(where) ==
    /\ tree.pc = "idle"
    /\ tree' = Statement("update", where)
    /\ UNCHANGED exceptTree

TreeDelete(where) ==
    /\ tree.pc = "idle"
    /\ tree' = Statement("delete", where)
    /\ UNCHANGED exceptTree

\* clear_table: delete(table) with no condition at all.
TreeClearTable ==
    /\ tree.pc = "idle"
    /\ tree' = [pc |-> "done", op |-> "clear_table", params |-> NoNode, exc |-> "none",
                where |-> <<>>, executed |-> TRUE, rows |-> Reached(<<>>)]
    /\ UNCHANGED exceptTree

\* The call has returned or raised; the caller makes the next one.
TreeReturn ==
    /\ tree.pc = "done"
    /\ tree' = IdleTree
    /\ UNCHANGED exceptTree

NextTree ==
    \/ tree.pc = "idle" /\ \E params \in Conditions : TreeSelect(params)
    \/ tree.pc = "idle" /\ \E where \in Conditions : TreeUpdate(where)
    \/ tree.pc = "idle" /\ \E where \in Conditions : TreeDelete(where)
    \/ TreeClearTable
    \/ TreeReturn

SpecTree == InitPure /\ [][NextTree]_vars

\* ---- the recursive contract
\* The shape the contract describes: a mapping whose _AND_ / _OR_ entries
\* hold lists of such mappings and whose other entries are values or callables.
RECURSIVE WellFormed(_)
WellFormed(condition) ==
    /\ condition.k = "map"
    /\ \A i \in 1..Len(condition.kids) :
         LET e == condition.kids[i]
         IN  IF e.key \in Junctions
             THEN e.k = "list" /\ \A j \in 1..Len(e.kids) : WellFormed(e.kids[j])
             ELSE e.k \in {"scalar", "callable"}

\* The reference evaluator: the row satisfies every entry of the mapping.
RECURSIVE Satisfies(_, _)
Satisfies(row, condition) ==
    \A i \in 1..Len(condition.kids) :
      LET e == condition.kids[i]
      IN  CASE e.key = "_AND_" -> \A j \in 1..Len(e.kids) : Satisfies(row, e.kids[j])
            [] e.key = "_OR_" -> \E j \in 1..Len(e.kids) : Satisfies(row, e.kids[j])
            [] e.k = "callable" -> row[e.key] > e.v
            [] OTHER -> row[e.key] = e.v

\* ----------------------------------------------------- SpecTasks actions
\* Concurrent get_header_info calls on one AsyncDataBase. A task is "idle",
\* "awaiting" the run of its catalog query, or "done" with the map it returns
\* or the exception it raises.
exceptTasks == <<client, event_handlers, ignore_event_errors, table_cache, call, last,
                 cond, pager, text, store, sem, tree, handles, batch, pair>>

InitTasks ==
    /\ client = "async"
    /\ event_handlers = [on_new_table |-> FALSE, on_query_error |-> FALSE]
    /\ ignore_event_errors = FALSE
    /\ _header_info_cache = [k \in Keys |-> NoMap]
    /\ table_cache = [k \in Keys |-> FALSE]
    /\ nextId = 1
    /\ call = [NewCall("none", "", "") EXCEPT
                 !.cache_at_start = [k \in Keys |-> NoMap]]
    /\ last = NoLast
    /\ cond = IdleCond
    /\ pager = IdlePager
    /\ text = IdleText
    /\ store = IdleStore
    /\ sem = IdleSem
    /\ tree = IdleTree
    /\ tasks = IdleTasks
    /\ handles = IdleHandles
    /\ batch = IdleBatch
    /\ pair = IdlePair

Awaiting == { t \in Tasks : tasks.task[t].pc = "awaiting" }

\* get_header_info up to its await: a hit returns the cached map, a miss
\* hands the catalog query to run and suspends the task.
HeaderInfoCall(t, key) ==
    /\ tasks.task[t].pc = "idle"
    /\ IF _header_info_cache[key] # NoMap
       THEN tasks' = [tasks EXCEPT !.task[t] = [pc |-> "done", key |-> key,
                                                ret |-> _header_info_cache[key],
                                                exc |-> NoExc]]
       ELSE /\ nextId + Cardinality(Awaiting) <= MaxObjects
            /\ tasks' = [tasks EXCEPT !.queries[key] = @ + 1,
                                       !.task[t] = [pc |-> "awaiting", key |-> key,
                                                    ret |-> NoMap, exc |-> NoExc]]
    /\ UNCHANGED <<_header_info_cache, nextId>>
    /\ UNCHANGED exceptTasks

\* run returned hdrRsp to the suspended task: the test, the new dict, the store.
HeaderInfoResume(t) ==
    /\ tasks.task[t].pc = "awaiting"
    /\ LET key    == tasks.task[t].key
           hdrRsp == Receive(DataBaseResponse, CatalogRows(key[2]))
           r      == GetHeaderInfoTail(key, hdrRsp)
       IN  /\ _header_info_cache' = r.cache
           /\ nextId' = r.nextId
           /\ tasks' = [tasks EXCEPT !.task[t] = [pc |-> "done", key |-> key,
                                                  ret |-> r.map, exc |-> r.exc]]
    /\ UNCHANGED exceptTasks

\* run raised in the suspended task: get_header_info lets the error through.
HeaderInfoRunRaises(t, e) ==
    /\ tasks.task[t].pc = "awaiting"
    /\ tasks' = [tasks EXCEPT !.task[t].pc = "done", !.task[t].exc = e]
    /\ UNCHANGED <<_header_info_cache, nextId>>
    /\ UNCHANGED exceptTasks

NextTasks ==
    \/ \E t \in Tasks, key \in Keys : HeaderInfoCall(t, key)
    \/ \E t \in Tasks : HeaderInfoResume(t)
    \/ \E t \in Tasks, e \in Errors : HeaderInfoRunRaises(t, e)

SpecTasks == InitTasks /\ [][NextTasks]_vars

\* --------------------------------------------------- SpecHandles actions
\* Concurrent AsyncDataBase.get_table calls. A task is "idle", "creating"
\* (awaiting TableCache.new), "notifying" (awaiting the on_new_table handler),
\* "resetting" (awaiting table_cache.reset) or "done".
exceptHandles == <<clientVars, cond, pager, text, store, sem, tree, tasks, batch, pair>>

InitHandles ==
    /\ client = "async"
    /\ event_handlers \in [on_new_table : BOOLEAN, on_query_error : {FALSE}]
    /\ ignore_event_errors \in BOOLEAN
    /\ _header_info_cache = [k \in Keys |-> NoMap]
    /\ table_cache = [k \in Keys |-> FALSE]
    /\ nextId = 1
    /\ call = [NewCall("none", "", "") EXCEPT
                 !.cache_at_start = [k \in Keys |-> NoMap]]
    /\ last = NoLast
    /\ cond = IdleCond
    /\ pager = IdlePager
    /\ text = IdleText
    /\ store = IdleStore
    /\ sem = IdleSem
    /\ tree = IdleTree
    /\ tasks = IdleTasks
    /\ handles = IdleHandles
    /\ batch = IdleBatch
    /\ pair = IdlePair

HandleTask(pc, key, h, how, exc) == [pc |-> pc, key |-> key, h |-> h, how |-> how, exc |-> exc]

\* get_table up to its first await: the cache test.
GetTableCall(t, key) ==
    /\ handles.task[t].pc = "idle"
    /\ LET h == handles.table_cache[key]
       IN  handles' =
             IF h = 0
             THEN [handles EXCEPT !.task[t] = HandleTask("creating", key, 0, "new", NoExc)]
             ELSE IF handles.expired[key]
             THEN [handles EXCEPT !.task[t] = HandleTask("resetting", key, h, "reset", NoExc)]
             ELSE [handles EXCEPT !.task[t] = HandleTask("done", key, h, "reuse", NoExc)]
    /\ UNCHANGED exceptHandles

\* TableCache.new returned or raised; with a handle, raise_event("on_new_table")
\* follows: with a handler the task awaits it, without one the handle is stored.
GetTableCreated(t) ==
    /\ handles.task[t].pc = "creating"
    /\ LET key == handles.task[t].key
           h   == handles.next
       IN  handles' =
             IF ReflectedColumns(key[2]) = {}
             THEN [handles EXCEPT !.task[t].pc = "done",
                                  !.task[t].exc = NoSuchTableError(key[2])]
             ELSE IF event_handlers.on_new_table
             THEN [handles EXCEPT !.next = @ + 1, !.created[key] = @ + 1,
                                  !.events[key] = @ + 1,
                                  !.task[t].pc = "notifying", !.task[t].h = h]
             ELSE [handles EXCEPT !.next = @ + 1, !.created[key] = @ + 1,
                                  !.table_cache[key] = h,
                                  !.task[t].pc = "done", !.task[t].h = h]
    /\ UNCHANGED exceptHandles

\* The on_new_table handler returned or raised: a raise gets out of
\* get_table unless ignore_event_errors, otherwise the handle is stored.
GetTableNotified(t, raises) ==
    /\ handles.task[t].pc = "notifying"
    /\ LET key == handles.task[t].key
       IN  handles' =
             IF raises /\ ~ignore_event_errors
             THEN [handles EXCEPT !.task[t].pc = "done", !.task[t].exc = HandlerError]
             ELSE [handles EXCEPT !.table_cache[key] = handles.task[t].h,
                                  !.task[t].pc = "done"]
    /\ UNCHANGED exceptHandles

\* table_cache.reset returned: the handle is reflected again and stored.
GetTableReset(t) ==
    /\ handles.task[t].pc = "resetting"
    /\ LET key == handles.task[t].key
       IN  handles' = [handles EXCEPT !.expired[key] = FALSE,
                                      !.table_cache[key] = handles.task[t].h,
                                      !.task[t].pc = "done"]
    /\ UNCHANGED exceptHandles

\* The expired flag of a cached handle is set.
Expire(key) ==
    /\ handles.table_cache[key] # 0
    /\ ~handles.expired[key]
    /\ handles' = [handles EXCEPT !.expired[key] = TRUE]
    /\ UNCHANGED exceptHandles

NextHandles ==
    \/ \E t \in Tasks, key \in Keys : GetTableCall(t, key)
    \/ \E t \in Tasks : GetTableCreated(t)
    \/ \E t \in Tasks, raises \in BOOLEAN : GetTableNotified(t, raises)
    \/ \E t \in Tasks : GetTableReset(t)
    \/ \E key \in Keys : Expire(key)

SpecHandles == InitHandles /\ [][NextHandles]_vars

\* ----------------------------------------------------- SpecBatch actions
\* One insert_pages / upsert_pages generator and its consumer. batch.calls
\* lists the insert calls issued so far: the slice and the upsert flag of each.
exceptBatch == <<clientVars, cond, pager, text, store, sem, tree, tasks, handles, pair>>

\* The start index the loop test sees: start_ix = end_ix runs when the
\* generator is resumed after a yield.
ResumedStart(b) == IF b.at_yield THEN b.end_ix ELSE b.start_ix

\* One turn of the loop that never moves the start index.
insert_pages_step_stalled(b) ==
    LET end_ix == Min(b.page_size + b.start_ix, Len(b.records))
        ctx    == SubSeq(b.records, b.start_ix + 1, end_ix)
    IN  [b EXCEPT !.end_ix = end_ix, !.at_yield = FALSE,
                  !.requests = @ + 1,
                  !.calls = Append(@, [ctx |-> ctx, upsert |-> b.upsert])]

\* One turn of the loop of insert_pages / upsert_pages, up to its yield:
\* the slice records[start_ix:end_ix] goes to insert.
insert_pages_step(b) ==
    LET start_ix == ResumedStart(b)
        end_ix   == Min(b.page_size + start_ix, Len(b.records))
        ctx      == SubSeq(b.records, start_ix + 1, end_ix)
    IN  [b EXCEPT !.start_ix = start_ix, !.end_ix = end_ix, !.at_yield = TRUE,
                  !.requests = @ + 1,
                  !.calls = Append(@, [ctx |-> ctx, upsert |-> b.upsert])]

\* insert_pages(..., upsert, page_size) / upsert_pages(..., page_size) is
\* called: a generator that has not run yet.
InsertPages(M, upsert, page_size) ==
    /\ batch.pc \in {"idle", "exhausted", "raised"}
    /\ batch' = [IdleBatch EXCEPT !.pc = "running", !.op = "insert_pages",
                                  !.records = Records(M), !.upsert = upsert,
                                  !.page_size = page_size]
    /\ UNCHANGED exceptBatch

UpsertPages(M, page_size) ==
    /\ batch.pc \in {"idle", "exhausted", "raised"}
    /\ batch' = [IdleBatch EXCEPT !.pc = "running", !.op = "upsert_pages",
                                  !.records = Records(M), !.upsert = TRUE,
                                  !.page_size = page_size]
    /\ UNCHANGED exceptBatch

\* The consumer asks for the next page, the loop has another turn and the
\* insert of the page returns.
BatchNext ==
    /\ batch.pc = "running"
    /\ ResumedStart(batch) < Len(batch.records)
    /\ Len(batch.calls) < MaxPages
    /\ batch' = insert_pages_step(batch)
    /\ UNCHANGED exceptBatch

\* The consumer asks for the next page and the insert of the page raises:
\* the error leaves the generator, which is finished.
BatchRaise ==
    /\ batch.pc = "running"
    /\ ResumedStart(batch) < Len(batch.records)
    /\ Len(batch.calls) < MaxPages
    /\ batch' = [insert_pages_step(batch) EXCEPT !.pc = "raised", !.at_yield = FALSE]
    /\ UNCHANGED exceptBatch

\* The consumer asks for the next page and the loop is over.
BatchExhaust ==
    /\ batch.pc = "running"
    /\ ~(ResumedStart(batch) < Len(batch.records))
    /\ batch' = [batch EXCEPT !.pc = "exhausted", !.start_ix = ResumedStart(batch),
                              !.at_yield = FALSE, !.requests = @ + 1]
    /\ UNCHANGED exceptBatch

NextBatch ==
    \/ \E M \in 0..MaxRows, upsert \in BOOLEAN, page_size \in 0..MaxPageSize :
         InsertPages(M, upsert, page_size)
    \/ \E M \in 0..MaxRows, page_size \in 0..MaxPageSize : UpsertPages(M, page_size)
    \/ BatchNext
    \/ BatchRaise
    \/ BatchExhaust

SpecBatch == InitPure /\ [][NextBatch]_vars

\* ------------------------------------------------------ SpecGenerators
\* One generator at a time, select_pages or insert_pages / upsert_pages, with
\* a consumer that keeps asking for the next page.
NextGenerators ==
    \/ batch.pc = "idle" /\ NextPages
    \/ pager.pc = "idle" /\ NextBatch

SpecGenerators ==
    /\ InitPure
    /\ [][NextGenerators]_vars
    /\ WF_vars(NextPage)
    /\ WF_vars(Exhaust)
    /\ WF_vars(BatchNext \/ BatchRaise)
    /\ WF_vars(BatchExhaust)

\* ------------------------------------------------------ SpecPair actions
\* A DataBase and an AsyncDataBase given the same sequential calls against the
\* same engine behaviour, no timeout expiring and no event handler registered.
exceptPair == <<clientVars, cond, pager, text, store, sem, tree, tasks, handles, batch>>

PairOps == {"run_select", "run_update", "select", "insert", "update", "delete",
            "upsert", "get_header_info"}

\* What the engine does with the statement: all of it, or an error on
\* connecting, on executing, or on committing when a commit is issued.
PairOutcomes == {"ok", "connect", "execute", "commit"}

\* execute on client cl. DataBase.execute commits after every statement;
\* AsyncDataBase._execute_and_commit commits when auto_commit is set.
PairExecute(cl, auto_commit, outcome) ==
    LET commits == cl = "sync" \/ auto_commit
    IN  [raised    |-> outcome \in {"connect", "execute"}
                        \/ (outcome = "commit" /\ commits),
         committed |-> commits /\ outcome = "ok"]

\* run(query): DataBase passes no auto_commit, AsyncDataBase passes
\* auto_commit = not query.is_select.
PairRun(cl, st, is_select, outcome) ==
    LET e == PairExecute(cl, ~is_select, outcome)
    IN  [st EXCEPT !.ret = IF e.raised THEN "DatabaseError" ELSE "response",
                   !.commits = IF e.committed THEN 1 ELSE 0]

\* get_table with no handler registered: the handle is cached under the key,
\* and reflecting a table that does not exist raises.
PairGetTable(st, key) ==
    IF key[2] = MissingTable
    THEN [st EXCEPT !.ret = NoSuchTableError(key[2]).type]
    ELSE [st EXCEPT !.table_cache = @ \cup {key}]

\* select, insert, update, delete and upsert: get_table, then execute; only
\* AsyncDataBase.select passes auto_commit=False.
PairCrud(cl, st, op, key, outcome) ==
    LET t == PairGetTable(st, key)
        e == PairExecute(cl, op # "select", outcome)
    IN  IF t.ret # "none" THEN t
        ELSE [t EXCEPT !.ret = IF e.raised THEN "DatabaseError" ELSE "response",
                       !.commits = IF e.committed THEN 1 ELSE 0]

\* get_header_info: the cached map, or the catalog query through run.
PairGetHeaderInfo(cl, st, key, outcome) ==
    IF key \in st._header_info_cache THEN [st EXCEPT !.ret = "map"]
    ELSE LET r == PairRun(cl, st, IsSelect("catalog"), outcome)
         IN  IF r.ret # "response" THEN r
             ELSE IF CatalogRows(key[2]) = {}
             THEN [r EXCEPT !.ret = SchemaQueryError(key[1], key[2]).type]
             ELSE [r EXCEPT !.ret = "map", !._header_info_cache = @ \cup {key}]

\* One call on client cl, from the state st the previous calls left.
PairApply(cl, st, op, key, outcome) ==
    LET st0 == [st EXCEPT !.ret = "none", !.commits = 0]
    IN  CASE op = "run_select"      -> PairRun(cl, st0, TRUE, outcome)
          [] op = "run_update"      -> PairRun(cl, st0, FALSE, outcome)
          [] op = "get_header_info" -> PairGetHeaderInfo(cl, st0, key, outcome)
          [] OTHER                  -> PairCrud(cl, st0, op, key, outcome)

\* The next call of the sequence, made on both clients.
PairCall(op, key, outcome) ==
    /\ pair.pc = "idle"
    /\ pair' = [pc |-> "called", op |-> op, key |-> key, outcome |-> outcome,
                sync  |-> PairApply("sync", pair.sync, op, key, outcome),
                async |-> PairApply("async", pair.async, op, key, outcome)]
    /\ UNCHANGED exceptPair

\* Both callers have their result; the caches stay as the call left them.
PairReturn ==
    /\ pair.pc = "called"
    /\ pair' = [IdlePair EXCEPT
                  !.sync._header_info_cache = pair.sync._header_info_cache,
                  !.sync.table_cache = pair.sync.table_cache,
                  !.async._header_info_cache = pair.async._header_info_cache,
                  !.async.table_cache = pair.async.table_cache]
    /\ UNCHANGED exceptPair

NextPair ==
    \/ \E op \in PairOps, key \in Keys, outcome \in PairOutcomes :
          PairCall(op, key, outcome)
    \/ PairReturn

SpecPair == InitPure /\ [][NextPair]_vars

\* ================================================================ claims
ExecFailed(c) == c.exec \notin {"none", "ok"}

\* C1: a call to run, execute, select, insert, update, delete, upsert or
\* clear_table without textual either raises or returns a response whose
\* successful flag is true; what it returns comes from an execution that did
\* not fail and carries no error.
C1_ReturnsSuccessfulOrRaises ==
    (call.pc = "done" /\ call.op \in CrudOps \cup {"run", "execute"} /\ ~call.textual) =>
        \/ Outcome(call) = "raised"
        \/ /\ Outcome(call) = "returned"
           /\ call.ret.kind = "dbr"
           /\ call.ret.dbr.successful
           /\ call.ret.dbr.error_info = NoError
           /\ call.exec = "ok"

\* A run whose execution failed has ended, and it raised.
C1_Witness ==
    call.pc = "done" /\ call.op = "run" /\ ExecFailed(call) /\ Outcome(call) = "raised"

\* C2: when AsyncDataBase.run's query fails and on_query_error is registered,
\* the handler is called once, with the exception of the execution and the
\* response of run, and has ended by the time the caller gets an exception.
C2_HandlerOnceBeforeRaise ==
    (client = "async" /\ call.op = "run" /\ event_handlers.on_query_error
       /\ ExecFailed(call)) =>
        /\ call.handler_calls <= 1
        /\ call.handler_calls = 1 =>
               (call.handed_exc = call.exec_exc /\ call.handed = call.dbr)
        /\ call.pc = "done" =>
               /\ Outcome(call) = "raised"
               /\ call.handler_calls = 1
               /\ call.handler_done

\* The handler has run and ended, and the caller has the exception of the query.
C2_Witness ==
    /\ client = "async" /\ call.op = "run" /\ event_handlers.on_query_error
    /\ call.pc = "done" /\ ExecFailed(call) /\ call.handler_done
    /\ call.exc = call.exec_exc

\* C3: whenever an execution fails, the response handed to on_query_error is
\* marked (successful = false, error_info set) and the call raises.
C3_FailedResponseMarked ==
    ExecFailed(call) =>
        /\ call.handler_calls > 0 =>
               (~call.handed.successful /\ call.handed.error_info # NoError)
        /\ call.pc = "done" => Outcome(call) = "raised"

\* C4: get_header_info whose catalog query succeeds with zero rows raises
\* SchemaQueryError naming the database and the table; a map it returns is
\* never empty.
C4_ZeroColumnsRaises ==
    (call.pc = "done" /\ call.op = "get_header_info") =>
        /\ (call.exec = "ok" /\ call.exec_dbr.rows = {}) =>
               /\ Outcome(call) = "raised"
               /\ call.exc.type = "SchemaQueryError"
               /\ call.exc.about = ResolveKey(call.database, call.table_name)
        /\ Outcome(call) = "returned" => call.ret.map.cols # {}

\* The catalog query of get_header_info succeeded with zero rows.
C4_Witness ==
    /\ call.pc = "done" /\ call.op = "get_header_info"
    /\ call.exec = "ok" /\ call.exec_dbr.rows = {}
    /\ call.table_name = MissingTable

\* C5: get_header_info whose catalog query fails raises SchemaQueryError
\* naming the database and the table.
C5_CatalogFailureIsSchemaQueryError ==
    (call.pc = "done" /\ call.op = "get_header_info" /\ ExecFailed(call)) =>
        /\ call.exc.type = "SchemaQueryError"
        /\ call.exc.about = ResolveKey(call.database, call.table_name)

TableColumnNames(table_name) == { col.key : col \in ReflectedColumns(table_name) }

AbsentKeys(records, table_name) ==
    { records[j][i].k : <<j, i>> \in
        { p \in (1..Len(records)) \X (1..2) : p[2] <= Len(records[p[1]]) } }
    \ TableColumnNames(table_name)

\* correct_types got as far as its loops over the records.
ReachedLoops(c) ==
    \/ c.op \in WriteOps /\ c.got_table
    \/ c.op = "correct_types" /\ c.table_arg
    \/ c.op = "correct_types" /\ ~c.table_arg /\ ~ExecFailed(c)
         /\ c.exc.type # "SchemaQueryError"

\* C6: convert_vals on a key that is not in the column metadata raises
\* MissingColumnError naming the key, and so do correct_types, insert and
\* upsert on records with such a key, and no insert statement is built or
\* executed; the error is never a plain KeyError.
C6_MissingColumnError ==
    /\ \A key \in {"name", "tags"}, table_name \in Tables :
          ~InColdata(key, _coldata_from_table(table_name)) =>
              convert_vals(key, RawValue(key), _coldata_from_table(table_name)).exc
                  = MissingColumnError(key)
    /\ (call.pc = "done" /\ ReachedLoops(call)
          /\ AbsentKeys(call.records, call.table_name) # {}) =>
              /\ Outcome(call) = "raised"
              /\ call.exc.type = "MissingColumnError"
              /\ \E k \in AbsentKeys(call.records, call.table_name) :
                     call.exc.about = <<k>>
              /\ call.stmt \notin WriteOps

\* An insert of a record with the key "tags" has ended.
C6_Witness ==
    /\ call.pc = "done" /\ call.op \in WriteOps /\ call.got_table
    /\ AbsentKeys(call.records, call.table_name) = {"tags"}
    /\ call.exc = MissingColumnError("tags")

\* C7: of two consecutive get_header_info calls for the same (database, table)
\* that return, the second returns the very object the first returned and
\* hands no catalog query to execute.
C7_SecondCallSameObject ==
    (/\ call.pc = "done" /\ call.op = "get_header_info" /\ Outcome(call) = "returned"
     /\ last.op = "get_header_info" /\ last.returned
     /\ last.key = ResolveKey(call.database, call.table_name)) =>
        /\ call.ret.map.id = last.map_id
        /\ ~call.catalog_queried

\* Two consecutive get_header_info calls for the same key have returned.
C7_Witness ==
    /\ call.pc = "done" /\ call.op = "get_header_info" /\ Outcome(call) = "returned"
    /\ last.op = "get_header_info" /\ last.returned
    /\ last.key = ResolveKey(call.database, call.table_name)
    /\ call.ret.map.id = 1

\* C8: insert and upsert hand no INFORMATION_SCHEMA query to execute and leave
\* _header_info_cache as it was; a catalog query comes only from
\* get_header_info, called directly or by correct_types without a table.
C8_WritesSkipCatalog ==
    /\ call.op \in WriteOps =>
          /\ ~call.catalog_queried
          /\ call.stmt # "catalog"
          /\ _header_info_cache = call.cache_at_start
    /\ (call.catalog_queried \/ call.stmt = "catalog") =>
          \/ call.op = "get_header_info"
          \/ call.op = "correct_types" /\ ~call.table_arg

\* An insert or upsert of a record has been executed.
C8_Witness ==
    /\ call.pc = "done" /\ call.op \in WriteOps /\ call.exec = "ok"
    /\ call.records # <<>>

\* Whether the WHERE clause keeps the row.
Selected == cond.result = "T"

\* C9: the predicates of equal_to(value, _not=True) and in_(values, _not=True)
\* with include_null unspecified keep every row whose column is NULL, and keep
\* a row whose column is not NULL exactly when the column differs from value /
\* is not in values.
C9_NegationKeepsNullRows ==
    (cond.pc = "evaluated" /\ cond._not /\ cond.include_null = "None") =>
        /\ cond.row = NULL => Selected
        /\ cond.row # NULL =>
              (Selected <=> IF cond.fn = "equal_to" THEN cond.row # cond.value
                            ELSE cond.row \notin cond.values)

RECURSIVE Concat(_)
Concat(pages) ==
    IF pages = <<>> THEN <<>> ELSE Head(pages) \o Concat(Tail(pages))

CeilDiv(m, n) == (m + n - 1) \div n

\* C10: select_pages with page size N >= 1 over M > N unchanging records, run
\* to its end, has yielded ceil(M/N) pages of at most N rows each, and the
\* pages put end to end are the M records in order.
C10_PagesCoverRecords ==
    (pager.pc = "exhausted" /\ pager.limit >= 1 /\ Len(pager.rows) > pager.limit) =>
        /\ Len(pager.pages) = CeilDiv(Len(pager.rows), pager.limit)
        /\ \A i \in 1..Len(pager.pages) : Len(pager.pages[i]) <= pager.limit
        /\ Concat(pager.pages) = pager.rows

\* A run over M = 2N records has ended: the extra row of the first fetch opens
\* the second page.
C10_Witness ==
    /\ pager.pc = "exhausted" /\ pager.limit = 2 /\ Len(pager.rows) = 4
    /\ pager.pages = << <<1, 2>>, <<3, 4>> >>

\* C11: a string coerced for a TINYTEXT column is cut to its first 255
\* characters; coerced for a TEXT, MEDIUMTEXT, LONGTEXT or JSON column it is
\* unchanged (every string here is within those classes' limits), and the
\* descriptor used is the column's own class (LONGTEXT for JSON).
C11_TextClassesKeepTheirCaps ==
    text.pc = "coerced" =>
        /\ text.type_name = "TINYTEXT" =>
              /\ text.DATA_TYPE = type_map("TINYTEXT")
              /\ text.value = SubSeq(text.raw, 1, Min(Len(text.raw), TINYTEXT_MAX))
        /\ text.type_name \in {"TEXT", "MEDIUMTEXT", "LONGTEXT"} =>
              /\ text.DATA_TYPE = type_map(text.type_name)
              /\ text.value = text.raw
        /\ text.type_name = "JSON" =>
              /\ text.DATA_TYPE = type_map("LONGTEXT")
              /\ text.value = text.raw

\* 300 characters went into a TINYTEXT column of a reflected table: 255 are left.
C11_Witness ==
    /\ text.pc = "coerced" /\ text.path = "table" /\ text.type_name = "TINYTEXT"
    /\ Len(text.raw) = 300 /\ Len(text.value) = 255

C13_UpsertKeepsLaterRecord ==
    (store.op = "upsert" /\ store.ret = "dbr") =>
        /\ store.stmt.kind = "insert"
        /\ store.stmt.on_duplicate_key_update =
              (IF store.update_keys = {} THEN TableColumnKeys ELSE store.update_keys)
        /\ (/\ store.prev.op = "upsert"
            /\ store.prev.update_keys = {} /\ store.update_keys = {}
            /\ CoerceColumn("name", store.prev.record.name)
                  = CoerceColumn("name", store.record.name)) =>
               /\ Cardinality({ r \in store.rows :
                                  r.name = CoerceColumn("name", store.record.name) }) = 1
               /\ \A r \in store.rows :
                     r.name = CoerceColumn("name", store.record.name) =>
                        \A k \in Supplied(store.record) :
                            r[k] = CoerceColumn(k, store.record[k])

\* Two upserts of one name, value 10 and then value 20: the row holds 20.
C13_Witness ==
    /\ store.op = "upsert" /\ store.ret = "dbr" /\ store.prev.op = "upsert"
    /\ store.prev.update_keys = {} /\ store.update_keys = {}
    /\ store.prev.record.name = store.record.name
    /\ store.prev.record.value = "10" /\ store.record.value = "20"
    /\ \E r \in store.rows : r.name = store.record.name /\ r.value = "20"

\* C17: with textual=True a CRUD method returns the statement's text; the
\* statement is not executed, nothing is committed and the rows of the table
\* are what they were.
C17_TextualNeverExecutes ==
    (store.pc = "done" /\ store.textual) =>
        /\ store.ret = "text"
        /\ ~store.executed
        /\ ~store.committed
        /\ store.rows = store.before

\* A textual delete whose condition matches a row of the table has returned.
C17_Witness ==
    /\ store.pc = "done" /\ store.textual /\ store.op = "delete"
    /\ store.ret = "text"
    /\ Matching(store.rows, store.where) # {}

\* C14: when an event handler raised during a call, the caller gets the
\* handler's exception unless ignore_event_errors is set; when it is set the
\* handler's exception is swallowed, and a call whose query failed still raises
\* the query's exception while a call whose query did not fail returns.
C14_HandlerErrorsPropagate ==
    (call.pc = "done" /\ call.handler_raised) =>
        IF ~ignore_event_errors
        THEN Outcome(call) = "raised" /\ call.exc = HandlerError
        ELSE /\ call.exc # HandlerError
             /\ ExecFailed(call) =>
                    (Outcome(call) = "raised" /\ call.exc = call.exec_exc)
             /\ (call.exec = "ok" /\ call.op \in CrudOps \cup {"run"}) =>
                    Outcome(call) = "returned"

\* The on_query_error handler of a failed run raised, and the caller got the
\* handler's exception, not the query's.
C14_Witness ==
    /\ call.pc = "done" /\ call.op = "run" /\ call.handler_raised /\ ExecFailed(call)
    /\ ~ignore_event_errors /\ call.exc = HandlerError /\ call.exec_exc # HandlerError

\* C15: the executions inside the semaphore-guarded section of execute are at
\* most the client's current max_db_concurrency, whatever the interleaving of
\* calls and of assignments to max_db_concurrency.
C15_InFlightWithinLimit == InFlight <= sem._max_db_concurrency

C18_ShapelessConditionRejected ==
    (tree.pc = "done" /\ tree.op # "clear_table" /\ ~WellFormed(tree.params)) =>
        (tree.exc = "InvalidConditionError" /\ ~tree.executed)

\* C20: the rows a statement reaches are the rows the recursive contract
\* names: those that satisfy every top-level entry of the condition, with
\* _AND_ read as all and _OR_ as at least one of the listed conditions.
C20_WhereIsTheContractPredicate ==
    (tree.pc = "done" /\ WellFormed(tree.params) /\ tree.exc = "none") =>
        tree.rows = { row \in ConditionRows : Satisfies(row, tree.params) }

\* C19: for a key none of whose get_header_info calls failed, at most one
\* catalog query has been issued and all the calls that returned hold the
\* same map object, whatever the interleaving of the calls.
C19_OneCatalogQueryPerKey ==
    \A key \in Keys :
      (\A t \in Tasks : tasks.task[t].key = key => tasks.task[t].exc = NoExc) =>
        /\ tasks.queries[key] <= 1
        /\ \A t, u \in Tasks :
             (/\ tasks.task[t].pc = "done" /\ tasks.task[t].key = key
              /\ tasks.task[u].pc = "done" /\ tasks.task[u].key = key)
             => tasks.task[t].ret.id = tasks.task[u].ret.id

\* C21: a commit is issued only for a mutation: after a select or a SELECT
\* handed to run there is no commit, after a statement whose execution
\* failed there is no commit, and a successful insert, update, delete, upsert
\* or clear_table is committed.
C21_CommitOnlyAfterMutation ==
    (call.exec # "none" /\ call.op \in CrudOps \cup RunOps) =>
        /\ IsSelect(call.stmt) => ~call.committed
        /\ call.exec \in {"connect", "execute", "commit"} => ~call.committed
        /\ (call.exec = "ok" /\ ~IsSelect(call.stmt)) => call.committed

\* C22: for each key of one AsyncDataBase, whatever the interleaving of the
\* get_table calls, a table handle is created at most once, on_new_table
\* fires at most once, and every call that returned holds the cached handle.
C22_OneHandlePerKey ==
    \A key \in Keys :
      /\ handles.created[key] <= 1
      /\ handles.events[key] <= 1
      /\ \A t \in Tasks :
           (handles.task[t].pc = "done" /\ handles.task[t].key = key
            /\ handles.task[t].exc = NoExc)
           => handles.task[t].h = handles.table_cache[key]

\* The slices of the calls issued, one after the other.
RECURSIVE ConcatCalls(_)
ConcatCalls(calls) ==
    IF calls = <<>> THEN <<>> ELSE calls[1].ctx \o ConcatCalls(Tail(calls))

\* C23: with page_size N >= 1, insert_pages and upsert_pages issue their
\* inserts over the consecutive slices records[0:N], records[N:2N], ..., one
\* per page the consumer asked for and never ahead of the request; a
\* generator that ran to its end has issued ceil(M/N) inserts and submitted
\* every record once.
C23_OneInsertPerSlice ==
    (batch.pc # "idle" /\ batch.page_size >= 1) =>
        /\ Len(batch.calls) <= batch.requests
        /\ \A i \in 1..Len(batch.calls) :
             /\ batch.calls[i].ctx =
                  SubSeq(batch.records, (i - 1) * batch.page_size + 1,
                         Min(i * batch.page_size, Len(batch.records)))
             /\ batch.calls[i].upsert = batch.upsert
        /\ batch.pc = "exhausted" =>
             /\ Len(batch.calls) = CeilDiv(Len(batch.records), batch.page_size)
             /\ ConcatCalls(batch.calls) = batch.records

\* upsert_pages over five records with page_size 2 ran to its end: three
\* upserts, the last of one record.
C23_Witness ==
    /\ batch.pc = "exhausted" /\ batch.op = "upsert_pages" /\ batch.page_size = 2
    /\ Len(batch.calls) = 3
    /\ batch.calls[3] = [ctx |-> <<5>>, upsert |-> TRUE]

\* C24: for the same sequence of sequential calls to run, select, insert,
\* update, delete, upsert and get_header_info, with no timeout expiring and no
\* event handler registered, DataBase and AsyncDataBase produce the same
\* observable results: the same return value or error, the same commits
\* issued, and the same schema-cache and table-cache contents.
C24_SyncAndAsyncAgree ==
    pair.pc = "called" => pair.sync = pair.async

\* C25: over a finite, unchanging input with at least one row or record, a
\* generator with page_size >= 1 that is consumed comes to its end, and one
\* with page_size = 0 never does: its offset / start index stays at 0.
C25_TerminatesIffPageSizePositive ==
    /\ (pager.pc = "running" /\ pager.limit >= 1) ~> (pager.pc = "exhausted")
    /\ (batch.pc = "running" /\ batch.page_size >= 1)
         ~> (batch.pc \in {"exhausted", "raised"})
    /\ []((pager.pc # "idle" /\ pager.limit = 0 /\ Len(pager.rows) >= 1)
           => (pager.pc # "exhausted" /\ pager.offset = 0))
    /\ []((batch.pc # "idle" /\ batch.page_size = 0 /\ Len(batch.records) >= 1)
           => (batch.pc # "exhausted" /\ ResumedStart(batch) = 0))

\* insert_pages with page_size 0 has yielded three pages and its start index
\* is still 0.
C25_Witness ==
    /\ batch.pc = "running" /\ batch.page_size = 0 /\ Len(batch.records) >= 1
    /\ Len(batch.calls) = 3 /\ ResumedStart(batch) = 0

C27_CacheHoldsOnlyCatalogMaps ==
    /\ \A key \in Keys :
         _header_info_cache[key] # NoMap =>
           (_header_info_cache[key].cols # {} /\ _header_info_cache[key].id >= 1)
    /\ (call.pc = "done" /\ call.op = "get_header_info") =>
         /\ Outcome(call) = "raised" => _header_info_cache = call.cache_at_start
         /\ ~call.catalog_queried => _header_info_cache = call.cache_at_start
         /\ \A key \in Keys :
              call.cache_at_start[key] # NoMap =>
                _header_info_cache[key] = call.cache_at_start[key]

\* get_header_info for the missing table has raised while the cache holds
\* the map of the existing table.
C27_Witness ==
    /\ call.pc = "done" /\ call.op = "get_header_info"
    /\ call.table_name = MissingTable /\ Outcome(call) = "raised"
    /\ call.catalog_queried
    /\ _header_info_cache[<<DefaultDatabase, ExistingTable>>] # NoMap
    /\ _header_info_cache[<<DefaultDatabase, MissingTable>>] = NoMap

C29_EmptyWhereReachesEveryRow ==
    (/\ tree.pc = "done"
     /\ \/ tree.op = "clear_table"
        \/ tree.params = Node("map", "", 0, <<>>)
        \/ tree.op = "select" /\ tree.params = NoNode) =>
        /\ tree.exc = "none" /\ tree.executed
        /\ tree.where = <<>>
        /\ tree.rows = ConditionRows

\* delete(where={}) has run and reached the four rows of the table.
C29_Witness ==
    /\ tree.pc = "done" /\ tree.op = "delete"
    /\ tree.params = Node("map", "", 0, <<>>)
    /\ tree.executed /\ Cardinality(tree.rows) = 4

====
